---- MODULE Spec2Model ----
(***************************************************************************)
(* RoguePython: the combat, equipment, inventory and progression core.     *)
(*                                                                         *)
(* The mutable objects of the game (Fighter, Level, Equipment, Inventory,  *)
(* Item.parent, GameMap.entities, the engine's combat flags and the active *)
(* event handler) are the variables.  Methods that call each other inside  *)
(* one handler are operators from a world record to a world record, so one *)
(* action is one whole handled event.                                      *)
(*                                                                         *)
(* An equipment slot holds the item whose Equippable the code stores in    *)
(* it.  Where the code reaches a fighter's field through a path the object *)
(* at hand does not have (Equipment.parent.fighter.strength, the           *)
(* equipment of the player's group in EquipAction), the model reads the    *)
(* field of the fighter meant: the group's first fighter.                  *)
(*                                                                         *)
(* The enemies' AI (components.ai) and the loot tables (dropgen) are not   *)
(* part of the sources, and Engine.handle_enemy_turns of the engine that   *)
(* new_game builds is abstract.  The enemies' turn (EnemyTurn,             *)
(* CombatEnemyTurns, RoamingEnemyTurns) and the results of a loot table    *)
(* (LootResults) follow the written specification of the game.             *)
(*                                                                         *)
(* The player's factory passes no abilities, while the combat menu takes   *)
(* the last ability of the player for its melee attack: the model gives    *)
(* the player the list [MeleeAttack] that the enemies' factories build.    *)
(***************************************************************************)
EXTENDS Integers, Sequences, FiniteSets, TLC

VARIABLES
    hp,              \* Fighter._hp
    max_hp,          \* Fighter.max_hp
    ai,              \* Fighter.ai is not None
    group_ai,        \* FighterGroup.ai is not None
    attr,            \* Fighter.strength / perseverance / agility / magic / proficiency
    level,           \* Level.current_level / current_xp / xp_given
    equipment,       \* Equipment.items and its running totals
    inventory,       \* Inventory.items (list of stacks) and Inventory.gold
    item_parent,     \* Entity.parent of every item
    entities,        \* GameMap.entities
    in_combat,       \* engine.in_combat
    active_enemies,  \* engine.active_enemies
    handler,         \* the active event handler and its own fields
    log,             \* what the handlers reported: death messages, loot rolls, enemy turns
    outcome,         \* how the last handled event ended
    audit            \* history kept for the properties only

vars == << hp, max_hp, ai, group_ai, attr, level, equipment, inventory, item_parent,
           entities, in_combat, active_enemies, handler, log, outcome, audit >>

(***************************************************************************)
(* Bounds of the model.                                                    *)
(***************************************************************************)
\* levels above MaxLevel are not explored
MaxLevel == 3
\* counters of the log saturate here
LogCap == 2
\* Inventory(capacity=...) of the player in the model
Capacity == 2
\* largest amount handed to take_damage / heal
MaxAmount == 2
\* experience and gold above these are not explored
MaxXp == 900
MaxGold == 20

Min(a, b) == IF a < b THEN a ELSE b
Max(a, b) == IF a > b THEN a ELSE b

(***************************************************************************)
(* The cast: the player group, one hostile group with a 2-enemy roster.    *)
(***************************************************************************)
Fighters == {"player", "e1", "e2"}
Groups == {"pg", "eg"}
NoGroup == "none"
NoItem == "none"

GroupOf(f) == IF f = "player" THEN "pg" ELSE "eg"
Roster(g) == IF g = "pg" THEN << "player" >> ELSE << "e1", "e2" >>
EnginePlayer == "pg"
Player0 == "player"

\* Constructor arguments of the three fighters.  The attributes of e1 and e2 are
\* those of Janitor and Lumberjack; the hit dice are kept small.
FighterArgs ==
    [ player |-> [ strength |-> 3, perseverance |-> 1, agility |-> 6, magic |-> 1,
                   min_hp_per_level |-> 3, max_hp_per_level |-> 4, fighter_class |-> "ROGUE",
                   level_up_base |-> 200, level_up_factor |-> 150, xp_given |-> 0,
                   capacity |-> Capacity, is_enemy |-> FALSE ],
      e1     |-> [ strength |-> 2, perseverance |-> 1, agility |-> 4, magic |-> 1,
                   min_hp_per_level |-> 2, max_hp_per_level |-> 3, fighter_class |-> "ROGUE",
                   level_up_base |-> 0, level_up_factor |-> 150, xp_given |-> 50,
                   capacity |-> 26, is_enemy |-> TRUE ],
      e2     |-> [ strength |-> 8, perseverance |-> 3, agility |-> 4, magic |-> 1,
                   min_hp_per_level |-> 3, max_hp_per_level |-> 4, fighter_class |-> "WARRIOR",
                   level_up_base |-> 0, level_up_factor |-> 150, xp_given |-> 100,
                   capacity |-> 26, is_enemy |-> TRUE ] ]

(***************************************************************************)
(* The world record: every variable an operation can change.               *)
(***************************************************************************)
World ==
    [ hp |-> hp, max_hp |-> max_hp, ai |-> ai, group_ai |-> group_ai, attr |-> attr,
      level |-> level, equipment |-> equipment, inventory |-> inventory,
      item_parent |-> item_parent, entities |-> entities, in_combat |-> in_combat,
      active_enemies |-> active_enemies, log |-> log, raised |-> FALSE ]

Commit(w) ==
    /\ hp' = w.hp
    /\ max_hp' = w.max_hp
    /\ ai' = w.ai
    /\ group_ai' = w.group_ai
    /\ attr' = w.attr
    /\ level' = w.level
    /\ equipment' = w.equipment
    /\ inventory' = w.inventory
    /\ item_parent' = w.item_parent
    /\ entities' = w.entities
    /\ in_combat' = w.in_combat
    /\ active_enemies' = w.active_enemies
    /\ log' = w.log

InitWorld(w) ==
    /\ hp = w.hp
    /\ max_hp = w.max_hp
    /\ ai = w.ai
    /\ group_ai = w.group_ai
    /\ attr = w.attr
    /\ level = w.level
    /\ equipment = w.equipment
    /\ inventory = w.inventory
    /\ item_parent = w.item_parent
    /\ entities = w.entities
    /\ in_combat = w.in_combat
    /\ active_enemies = w.active_enemies
    /\ log = w.log

\* exceptions.Impossible raised: the pending exception travels with the world
Raise(w) == [w EXCEPT !.raised = TRUE]

Inc(n) == Min(n + 1, LogCap)

(***************************************************************************)
(* Items.  Weapon, Armor and the item factories.                           *)
(***************************************************************************)
Slots == {"HEAD", "ARMOR", "MAINHAND", "OFFHAND", "TRINKET1", "TRINKET2"}

Weapon(name, weapon_type, min_damage, max_damage, two_handed, offhand) ==
    [ name |-> name, stackable |-> FALSE, consumable |-> "none", equippable |-> "Weapon",
      equipment_type |-> "WEAPON", weapon_type |-> weapon_type,
      min_damage |-> min_damage, max_damage |-> max_damage,
      attack_bonus |-> 0, damage_bonus |-> 0,
      two_handed |-> two_handed, offhand |-> offhand,
      armor_bonus |-> 0, agility_penalty |-> 0 ]

Armor(name, armor_bonus, agility_penalty) ==
    [ name |-> name, stackable |-> FALSE, consumable |-> "none", equippable |-> "Armor",
      equipment_type |-> "ARMOR", weapon_type |-> "none",
      min_damage |-> 0, max_damage |-> 0, attack_bonus |-> 0, damage_bonus |-> 0,
      two_handed |-> FALSE, offhand |-> FALSE,
      armor_bonus |-> armor_bonus, agility_penalty |-> agility_penalty ]

ConsumableItem(name, consumable) ==
    [ name |-> name, stackable |-> TRUE, consumable |-> consumable, equippable |-> "none",
      equipment_type |-> "none", weapon_type |-> "none",
      min_damage |-> 0, max_damage |-> 0, attack_bonus |-> 0, damage_bonus |-> 0,
      two_handed |-> FALSE, offhand |-> FALSE, armor_bonus |-> 0, agility_penalty |-> 0 ]

\* The item objects of the model.  "greataxe" is a Weapon(two_handed=True),
\* "shield" an Armor(equipment_type=EquipmentType.OFFHAND, armor_bonus=1); the
\* others are copies of the factory items.
ItemDef ==
    [ dagger   |-> Weapon("Dagger", "AGILITY", 1, 4, FALSE, TRUE),
      dagger2  |-> Weapon("Dagger", "AGILITY", 1, 4, FALSE, TRUE),
      greataxe |-> Weapon("Greataxe", "STRENGTH", 1, 4, TRUE, FALSE),
      broom    |-> Weapon("Broom", "AGILITY", 1, 3, FALSE, FALSE),
      handaxe  |-> Weapon("Hand Axe", "STRENGTH", 1, 4, FALSE, FALSE),
      club     |-> Weapon("Club", "STRENGTH", 1, 4, FALSE, TRUE),
      leather  |-> Armor("Leather Armor", 1, 0),
      chain    |-> Armor("Chain Mail", 3, 1),
      shield   |-> [Armor("Shield", 1, 0) EXCEPT !.equipment_type = "OFFHAND"],
      rat1     |-> ConsumableItem("Tasty Rat", "healing"),
      rat2     |-> ConsumableItem("Tasty Rat", "healing"),
      rat3     |-> ConsumableItem("Tasty Rat", "healing"),
      fireball1  |-> ConsumableItem("Fireball Scroll", "fireball"),
      fireball2  |-> ConsumableItem("Fireball Scroll", "fireball"),
      lightning1 |-> ConsumableItem("Lightning Scroll", "lightning"),
      confusion1 |-> ConsumableItem("Confusion Scroll", "confusion") ]

Items == DOMAIN ItemDef

\* Entity.parent of an item: the map, a fighter's inventory, a fighter's equipment;
\* NoParent before the item is placed anywhere.
NoParent == << "none", "none" >>
TheMap == << "map", "map" >>
InvOf(f) == << "inventory", f >>
EquipOf(f) == << "equipment", f >>

(***************************************************************************)
(* Inventory                                                               *)
(***************************************************************************)
MAX_STACK_SIZE == 99

RECURSIVE FlattenStacks(_)
FlattenStacks(stacks) ==
    IF stacks = << >> THEN << >> ELSE Head(stacks) \o FlattenStacks(Tail(stacks))

SeqSet(s) == { s[k] : k \in DOMAIN s }

\* index of the first stack holding the item, 0 when none does
StackOf(stacks, item) ==
    LET hits == { k \in DOMAIN stacks : item \in SeqSet(stacks[k]) }
    IN IF hits = {} THEN 0 ELSE CHOOSE k \in hits : \A j \in hits : k <= j

has_item(w, f, item) == StackOf(w.inventory[f].items, item) # 0

RemoveAt(s, k) == [ j \in 1..(Len(s) - 1) |-> IF j < k THEN s[j] ELSE s[j + 1] ]

RemoveFirst(s, x) ==
    LET hits == { k \in DOMAIN s : s[k] = x }
        k == CHOOSE i \in hits : \A j \in hits : i <= j
    IN IF hits = {} THEN s ELSE RemoveAt(s, k)

remove_item(w, f, item) ==
    LET stacks == w.inventory[f].items
        k == StackOf(stacks, item)
        rest == RemoveFirst(stacks[k], item)
    IN IF k = 0 THEN w
       ELSE IF rest = << >>
            THEN [w EXCEPT !.inventory[f].items = RemoveAt(stacks, k)]
            ELSE [w EXCEPT !.inventory[f].items[k] = rest]

\* the test of the stack size, with <= for <
FittingStack_overfull(stacks, item) ==
    LET fits == { k \in DOMAIN stacks :
                    /\ ItemDef[item].name = ItemDef[stacks[k][1]].name
                    /\ Len(stacks[k]) <= MAX_STACK_SIZE }
    IN IF fits = {} THEN 0 ELSE CHOOSE k \in fits : \A j \in fits : k <= j

\* index of the first stack the item can be stacked on, 0 when there is none
FittingStack(stacks, item) ==
    LET fits == { k \in DOMAIN stacks :
                    /\ ItemDef[item].name = ItemDef[stacks[k][1]].name
                    /\ Len(stacks[k]) < MAX_STACK_SIZE }
    IN IF fits = {} THEN 0 ELSE CHOOSE k \in fits : \A j \in fits : k <= j

add_item(w, f, item) ==
    LET stacks == w.inventory[f].items
        k == IF ItemDef[item].stackable THEN FittingStack(stacks, item) ELSE 0
    IN IF Len(stacks) < FighterArgs[f].capacity
       THEN LET w1 == [w EXCEPT !.item_parent[item] = InvOf(f)]
            IN IF k # 0
               THEN [w1 EXCEPT !.inventory[f].items[k] = Append(@, item)]
               ELSE [w1 EXCEPT !.inventory[f].items = Append(@, << item >>)]
       ELSE IF k # 0
            THEN [w EXCEPT !.inventory[f].items[k] = Append(@, item)]
            ELSE Raise(w)

(***************************************************************************)
(* Level                                                                   *)
(***************************************************************************)
experience_to_next_level(w, f) ==
    FighterArgs[f].level_up_base + w.level[f].current_level * FighterArgs[f].level_up_factor

requires_level_up(w, f) == w.level[f].current_xp >= experience_to_next_level(w, f)

add_xp(w, f, xp) ==
    IF xp = 0 \/ FighterArgs[f].level_up_base = 0
    THEN w
    ELSE [w EXCEPT !.level[f].current_xp = @ + xp]

Level_proficiency(w, f) == 1 + (w.level[f].current_level \div 4)

(***************************************************************************)
(* Fighter                                                                 *)
(***************************************************************************)
BASE_DEFENSE == 10

is_alive(w, f) == w.ai[f]

\* a group that counts as alive while its first fighter is: C17 rests on the
\* loop over all of them
FirstFighter_is_alive(w, g) == is_alive(w, Roster(g)[1])

Group_is_alive(w, g) == \E k \in DOMAIN Roster(g) : is_alive(w, Roster(g)[k])

\* One entry of a loot roll: a gold value (item = NoItem) or an item.
RECURSIVE ApplyLoot(_, _, _)
ApplyLoot(w, f, loot) ==
    IF loot = << >> \/ w.raised THEN w
    ELSE ApplyLoot(IF Head(loot).item = NoItem
                   THEN [w EXCEPT !.inventory[f].gold = @ + Head(loot).gold]
                   ELSE add_item(w, f, Head(loot).item),
                   f, Tail(loot))

Fighter_die(w, f) ==
    add_xp([w EXCEPT !.ai[f] = FALSE, !.log.deaths[f] = Inc(@)], Player0, w.level[f].xp_given)

Enemy_die(w, f, loot) ==
    ApplyLoot([Fighter_die(w, f) EXCEPT !.log.loot_rolls[f] = Inc(@)], f, loot)

die(w, f, loot) ==
    IF FighterArgs[f].is_enemy THEN Enemy_die(w, f, loot) ELSE Fighter_die(w, f)

\* the guard of the hp setter: "self.parent.ai", the AI of the fighter's group
DeathGuard(w, f) == w.group_ai[GroupOf(f)]

\* the clamp of the hp setter with its upper half left out: C1 rests on it
ClampBelowOnly(value, maximum) == Max(0, value)

\* the clamp of the hp setter
Clamp(value, maximum) == Max(0, Min(value, maximum))

\* the hp setter after the assignment to _hp
HpAssigned(w, f, loot) ==
    IF w.hp[f] = 0 /\ DeathGuard(w, f) THEN die(w, f, loot) ELSE w

set_hp(w, f, value, loot) ==
    HpAssigned([w EXCEPT !.hp[f] = Clamp(value, w.max_hp[f])], f, loot)

take_damage(w, f, amount, loot) == set_hp(w, f, w.hp[f] - amount, loot)

\* heal without its test for full HP: C12 rests on the test
heal_unguarded(w, f, amount, loot) ==
    [ w |-> set_hp(w, f, Min(w.hp[f] + amount, w.max_hp[f]), loot),
      ret |-> Min(w.hp[f] + amount, w.max_hp[f]) - w.hp[f] ]

\* heal returns the amount recovered next to the world
heal(w, f, amount, loot) ==
    IF w.hp[f] = w.max_hp[f]
    THEN [ w |-> w, ret |-> 0 ]
    ELSE [ w |-> set_hp(w, f, Min(w.hp[f] + amount, w.max_hp[f]), loot),
           ret |-> Min(w.hp[f] + amount, w.max_hp[f]) - w.hp[f] ]

roll_hitpoints(w, f, roll) ==
    LET new_hp == roll + ((w.attr[f].perseverance + w.equipment[f].perseverance_bonus) \div 2)
    IN [w EXCEPT !.max_hp[f] = @ + new_hp, !.hp[f] = @ + new_hp]

HitDice(f) == FighterArgs[f].min_hp_per_level .. FighterArgs[f].max_hp_per_level

avoidance(w, f) ==
    BASE_DEFENSE + ((w.attr[f].agility + w.equipment[f].agility_bonus) \div 2)
        + w.equipment[f].avoidance_bonus

armor(w, f) == w.equipment[f].armor_bonus

(***************************************************************************)
(* Level.increase_level and the stat increases                             *)
(***************************************************************************)
Stats == {"Strength", "Perseverance", "Agility", "Magic"}

\* increase_perseverance with the level the fighter had before: C30 rests on
\* the level being raised first
increase_perseverance_at_old_level(w, f) ==
    LET amount == (w.attr[f].perseverance + 1) * (w.level[f].current_level - 1)
    IN set_hp([w EXCEPT !.attr[f].perseverance = @ + 1, !.max_hp[f] = @ + amount],
              f, w.hp[f] + amount, << >>)

increase_perseverance(w, f) ==
    LET amount == (w.attr[f].perseverance + 1) * w.level[f].current_level
    IN set_hp([w EXCEPT !.attr[f].perseverance = @ + 1, !.max_hp[f] = @ + amount],
              f, w.hp[f] + amount, << >>)

increase_stat(w, f, stat) ==
    CASE stat = "Strength" -> [w EXCEPT !.attr[f].strength = @ + 1]
      [] stat = "Perseverance" -> increase_perseverance(w, f)
      [] stat = "Agility" -> [w EXCEPT !.attr[f].agility = @ + 1]
      [] stat = "Magic" -> [w EXCEPT !.attr[f].magic = @ + 1]
      [] OTHER -> w

RECURSIVE increase_stats(_, _, _)
increase_stats(w, f, stats) ==
    IF stats = << >> THEN w
    ELSE increase_stats(increase_stat(w, f, Head(stats)), f, Tail(stats))

\* increase_level from the stat increases on
Levelled(w, f, roll) ==
    roll_hitpoints([w EXCEPT !.attr[f].proficiency = << 1 + (w.level[f].current_level % 4) >>],
                   f, roll)

\* the first two statements of increase_level charging the threshold of the level
\* arrived at: C9 rests on the threshold being read before the level changes
ChargeNextThreshold(w, f) ==
    [w EXCEPT !.level[f].current_xp =
                  @ - (FighterArgs[f].level_up_base
                         + (w.level[f].current_level + 1) * FighterArgs[f].level_up_factor),
              !.level[f].current_level = @ + 1]

\* increase_level: the first two statements
ChargeThreshold(w, f) ==
    [w EXCEPT !.level[f].current_xp = @ - experience_to_next_level(w, f),
              !.level[f].current_level = @ + 1]

increase_level(w, f, stats, roll) ==
    Levelled(increase_stats(ChargeThreshold(w, f), f, stats), f, roll)

(***************************************************************************)
(* Equippable and Equipment                                                *)
(***************************************************************************)
on_equip(w, f, item) ==
    IF ItemDef[item].equippable = "Armor"
    THEN [w EXCEPT !.equipment[f].armor_bonus = @ + ItemDef[item].armor_bonus,
                   !.equipment[f].agility_bonus = @ - ItemDef[item].agility_penalty]
    ELSE w

on_unequip(w, f, item) ==
    IF ItemDef[item].equippable = "Armor"
    THEN [w EXCEPT !.equipment[f].armor_bonus = @ - ItemDef[item].armor_bonus,
                   !.equipment[f].agility_bonus = @ + ItemDef[item].agility_penalty]
    ELSE w

item_is_equipped(w, f, slot) == w.equipment[f].items[slot] # NoItem

\* the attack bonus and damage range of a weapon slot; set |-> FALSE until the
\* first equip or unequip of that slot assigns them
UnsetFigures == [ set |-> FALSE, attack_bonus |-> 0, min_damage |-> 0, max_damage |-> 0 ]

WeaponFigures(item) ==
    [ set |-> TRUE,
      attack_bonus |-> ItemDef[item].attack_bonus,
      min_damage |-> ItemDef[item].min_damage + ItemDef[item].damage_bonus,
      max_damage |-> ItemDef[item].max_damage + ItemDef[item].damage_bonus ]

\* what unequip_from_slot leaves in a weapon slot's figures
UnequippedFigures(w, f) ==
    [ set |-> TRUE,
      attack_bonus |-> w.attr[f].strength \div 2,
      min_damage |-> w.attr[f].strength \div 2,
      max_damage |-> w.attr[f].strength \div 2 ]

\* the slot's figures, for the two weapon slots
SetFigures(w, f, slot, figures) ==
    IF slot = "MAINHAND" THEN [w EXCEPT !.equipment[f].mainhand = figures]
    ELSE IF slot = "OFFHAND" THEN [w EXCEPT !.equipment[f].offhand = figures]
    ELSE w

\* unequip_from_slot from the return of inventory.add_item on
Unequipped(w, f, slot, current_item) ==
    IF w.raised THEN w
    ELSE SetFigures(on_unequip([w EXCEPT !.item_parent[current_item] = InvOf(f)],
                               f, current_item),
                    f, slot, UnequippedFigures(w, f))

unequip_from_slot(w, f, slot) ==
    IF w.equipment[f].items[slot] = NoItem THEN w
    ELSE Unequipped(add_item([w EXCEPT !.equipment[f].items[slot] = NoItem], f,
                             w.equipment[f].items[slot]),
                    f, slot, w.equipment[f].items[slot])

\* equip_to_slot: the item leaves the inventory if it is there
TakeFromInventory(w, f, item) ==
    IF has_item(w, f, item) THEN remove_item(w, f, item) ELSE w

\* equip_to_slot: the item enters the slot
PutInSlot(w, f, slot, item) ==
    SetFigures(on_equip([w EXCEPT !.item_parent[item] = EquipOf(f),
                                  !.equipment[f].items[slot] = item], f, item),
               f, slot, WeaponFigures(item))

\* equip_to_slot with the two-handed clause left out: C6 rests on the clause
KeepOffhand(w, f, slot, item) == w

\* equip_to_slot: a two-handed weapon in the main hand empties the off hand
TwoHandedClause(w, f, slot, item) ==
    IF /\ slot = "MAINHAND"
       /\ ItemDef[item].two_handed
       /\ w.equipment[f].items["OFFHAND"] # NoItem
    THEN unequip_from_slot(w, f, "OFFHAND")
    ELSE w

\* equip_to_slot once the slot's occupant has been unequipped
Equipped(w, f, slot, item) ==
    IF w.raised THEN w
    ELSE TwoHandedClause(PutInSlot(TakeFromInventory(w, f, item), f, slot, item),
                         f, slot, item)

equip_to_slot(w, f, slot, item) ==
    Equipped(IF w.equipment[f].items[slot] # NoItem
             THEN unequip_from_slot(w, f, slot) ELSE w,
             f, slot, item)

(***************************************************************************)
(* Construction: Fighter.__init__, Enemy.__init__, the factories, new_game *)
(***************************************************************************)
NewEquipment ==
    [ items |-> [ s \in Slots |-> NoItem ],
      strength_bonus |-> 0, perseverance_bonus |-> 0, agility_bonus |-> 0,
      magic_bonus |-> 0, armor_bonus |-> 0, avoidance_bonus |-> 0,
      spell_attack_bonus |-> 0,
      mainhand |-> UnsetFigures, offhand |-> UnsetFigures ]

\* Ability.__init__: the cooldown given, nothing of it running
Ability(kind, cooldown) ==
    [ kind |-> kind, cooldown |-> cooldown, cooldown_remaining |-> 0 ]

\* MeleeAttack.__init__ passes no cooldown
MeleeAttack == Ability("MeleeAttack", 0)

NewFighter(f) ==
    [ strength |-> FighterArgs[f].strength, perseverance |-> FighterArgs[f].perseverance,
      agility |-> FighterArgs[f].agility, magic |-> FighterArgs[f].magic,
      proficiency |-> << >>,
      \* self.abilities = [MeleeAttack(caster=self, target=None)]
      abilities |-> << MeleeAttack >>,
      \* mana: int = 0, and no factory passes another value
      max_mana |-> 0, mana |-> 0 ]

NewLevel(f) == [ current_level |-> 1, current_xp |-> 0, xp_given |-> FighterArgs[f].xp_given ]

NoLog == [ deaths |-> [ f \in Fighters |-> 0 ], loot_rolls |-> [ f \in Fighters |-> 0 ] ]

BlankWorld ==
    [ hp |-> [ f \in Fighters |-> 0 ], max_hp |-> [ f \in Fighters |-> 0 ],
      ai |-> [ f \in Fighters |-> TRUE ], group_ai |-> [ g \in Groups |-> TRUE ],
      attr |-> [ f \in Fighters |-> NewFighter(f) ],
      level |-> [ f \in Fighters |-> NewLevel(f) ],
      equipment |-> [ f \in Fighters |-> NewEquipment ],
      inventory |-> [ f \in Fighters |-> [ items |-> << >>, gold |-> 0 ] ],
      item_parent |-> [ i \in Items |-> NoParent ],
      entities |-> {}, in_combat |-> FALSE, active_enemies |-> NoGroup,
      log |-> NoLog, raised |-> FALSE ]

\* Fighter.__init__ ends in roll_hitpoints(); rolls[f] is the hit die of fighter f
Constructed(rolls) ==
    roll_hitpoints(roll_hitpoints(roll_hitpoints(BlankWorld, "player", rolls["player"]),
                                  "e1", rolls["e1"]), "e2", rolls["e2"])

\* Janitor.__init__ and Lumberjack.__init__ after Enemy.__init__ (target_level 1)
Janitor(w) == equip_to_slot(w, "e1", "MAINHAND", "broom")

Lumberjack(w) == add_item(equip_to_slot(w, "e2", "MAINHAND", "handaxe"), "e2", "rat2")

\* new_game(FighterClass.ROGUE)
new_game(w) ==
    equip_to_slot(
        equip_to_slot([w EXCEPT !.item_parent["dagger"] = EquipOf("player"),
                                !.item_parent["leather"] = EquipOf("player")],
                      "player", "MAINHAND", "dagger"),
        "player", "ARMOR", "leather")

\* Entity.spawn / Entity.place of an item on the floor the player stands on
place(w, item) ==
    [w EXCEPT !.item_parent[item] = TheMap, !.entities = @ \cup {item}]

RECURSIVE place_all(_, _)
place_all(w, items) ==
    IF items = << >> THEN w ELSE place_all(place(w, Head(items)), Tail(items))

(***************************************************************************)
(* Event handlers: the active handler, and how the last event ended.       *)
(***************************************************************************)
Handler(name) ==
    [ name |-> name, item |-> NoItem, items |-> << >>, gold |-> 0, ability |-> 0,
      stats |-> << >> ]

Outcome(result, enemy_turn) == [ result |-> result, enemy_turn |-> enemy_turn ]

\* History for the properties: the last experience grant, the last equip call,
\* and an equip that may be followed by the unequip of the same slot.
NoXpEvent == [ valid |-> FALSE, level_before |-> 0, points_before |-> 0, crossed |-> 0 ]
NoEquipCall ==
    [ returned |-> FALSE, slot |-> "none", item |-> NoItem, prev_offhand |-> NoItem,
      while_two_handed |-> FALSE ]
NoRoundTrip == [ phase |-> "none", slot |-> "none", item |-> NoItem, before |-> NewEquipment ]
\* a call of roll_attack: the two d20 draws, its arguments, and what it returned
\* with and without advantage
NoRollEvent ==
    [ phase |-> "none", r1 |-> 1, r2 |-> 1, crit_threshold |-> 20, attack_bonus |-> 0,
      with_advantage |-> 0, without_advantage |-> 0 ]
\* the last step was heal() on a fighter at full HP, and what it returned
NoHealEvent == [ at_full |-> FALSE, ret |-> 0 ]
\* the last step was restore_mana(), whether the pool was full, what it returned
NoManaEvent == [ called |-> FALSE, at_full |-> FALSE, ret |-> 0 ]
\* the last WeaponAttack.perform: its arguments, its d20 after advantage, what
\* roll_weapon_attack returned, its locals, its message and the target's hp
\* before it
NoStrike ==
    [ called |-> FALSE, skipped |-> FALSE, target |-> "player", roll |-> 0,
      rolled |-> 0, attack |-> 0, damage |-> 0, message |-> "none", hp_before |-> 0 ]
\* the last BumpAction.perform: who bumped into whom
NoBump == [ called |-> FALSE, entity |-> "none", target_actor |-> "none" ]
\* the last CombatEngine.handle_enemy_turns: the enemies whose ai performed, in
\* the order they did, and whether the call ended in an exception
NoTurn == [ called |-> FALSE, acted |-> << >>, error |-> FALSE ]
\* the last ability handed to handle_action, or turned down by the ability
\* menu: its place in the list and its cooldown_remaining at that moment
NoAbilityUse == [ performed |-> FALSE, rejected |-> FALSE, k |-> 0, remaining |-> 0 ]
\* the last call of start_cooldown / reduce_cooldown and of is_on_cooldown
\* after it
NoCooldownCall ==
    [ op |-> "none", cooldown |-> 0, before |-> 0, after |-> 0, on |-> FALSE ]
\* the last MeleeAttack.perform: caster and target, the target's hp between
\* the two strikes, the message of each strike and whether the off-hand strike
\* drew a d20
NoMelee ==
    [ called |-> FALSE, caster |-> "player", target |-> "player", hp_between |-> 0,
      mainhand_message |-> "none", offhand_message |-> "none", offhand_rolled |-> FALSE ]
\* the last key handled by the loot screen: the entry under the cursor, the
\* list, the player's stacks and gold before and after, the pooled gold,
\* whether add_item raised and whether the screen was left
NoLootKey ==
    [ key |-> "none", k |-> 0, items_before |-> << >>, items_after |-> << >>,
      stacks_before |-> << >>, stacks_after |-> << >>,
      gold_before |-> 0, gold_after |-> 0, pooled |-> 0,
      raised |-> FALSE, left |-> FALSE ]
\* the fighters that were constructed without inventory, equipment and level
\* arguments
NoDefaults == [ built |-> {} ]
\* the last read of Fighter.avoidance
NoAvoidance == [ read |-> FALSE, value |-> 0 ]
\* the last increase_level: the attributes chosen and the hit die rolled, and
\* the fighter's level, attributes and hit points before and after
NoLevelUp ==
    [ called |-> FALSE, stats |-> << >>, roll |-> 0,
      level_before |-> << >>, level_after |-> << >>,
      attr_before |-> << >>, attr_after |-> << >>,
      hp_before |-> 0, hp_after |-> 0, max_hp_before |-> 0, max_hp_after |-> 0 ]
\* the last item picked in the combat inventory: its kind, the roster's living
\* fighters before it, how the call ended, and the scrolls of that kind and the
\* hit points before and after
NoSpell ==
    [ called |-> FALSE, kind |-> "none", living |-> {}, error |-> "none",
      count_before |-> 0, count_after |-> 0,
      hp_before |-> << >>, hp_after |-> << >>,
      ai_before |-> << >>, ai_after |-> << >> ]
\* the last EquipAction.perform: its item and slot, what the slot held before,
\* and whether it returned without raising
NoEquipAction ==
    [ called |-> FALSE, completed |-> FALSE, slot |-> "none", item |-> NoItem,
      occupant |-> NoItem ]
\* Enemy.__init__: the target_level each enemy was constructed with, the
\* enemies whose constructor has not returned yet, and the passes of the
\* levelling loop
NoConstruct ==
    [ target |-> [ f \in {"e1", "e2"} |-> 1 ], running |-> {},
      passes |-> [ f \in {"e1", "e2"} |-> 0 ] ]
\* the last direct call of Inventory.add_item or Inventory.remove_item
NoInventoryCall ==
    [ op |-> "none", item |-> NoItem, raised |-> FALSE,
      stacks_before |-> << >>, stacks_after |-> << >> ]
NoAudit ==
    [ xp |-> NoXpEvent, equip |-> NoEquipCall, round_trip |-> NoRoundTrip,
      roll |-> NoRollEvent, heal |-> NoHealEvent, mana |-> NoManaEvent,
      strike |-> NoStrike, bump |-> NoBump, turn |-> NoTurn,
      ability |-> NoAbilityUse, cooldown |-> NoCooldownCall, melee |-> NoMelee,
      equip_action |-> NoEquipAction, spell |-> NoSpell,
      levelup |-> NoLevelUp, avoidance |-> NoAvoidance,
      defaults |-> NoDefaults, loot |-> NoLootKey, construct |-> NoConstruct,
      inventory_call |-> NoInventoryCall ]

\* what the model explores
Bounded(w) ==
    \A f \in Fighters :
        /\ w.level[f].current_xp <= MaxXp
        /\ w.level[f].current_level <= MaxLevel
        /\ w.inventory[f].gold <= MaxGold

\* A result of Enemy.loot_table.rds_result: nothing, gold, or a healing item the
\* table has not handed out yet.
LootResults(w, f) ==
    IF f = "e1"
    THEN { << >>, << [ gold |-> 10, item |-> NoItem ] >> }
         \cup (IF w.item_parent["rat3"] = NoParent
               THEN { << [ gold |-> 0, item |-> "rat3" ] >> } ELSE {})
    ELSE { << >>, << [ gold |-> 10, item |-> NoItem ] >> }

(***************************************************************************)
(* Specification SpecFighter: the Fighter and Level operations called      *)
(* directly, in any order and with any amounts.                            *)
(***************************************************************************)
Amounts == (0 - MaxAmount) .. MaxAmount
XpGrants == {350, 850}
\* the fighter the operations are called on
Targets == {Player0}
StatChoices ==
    { << "Strength", "Strength", "Strength" >>,
      << "Perseverance", "Agility", "Magic" >> }

StatPoints(w, f) ==
    w.attr[f].strength + w.attr[f].perseverance + w.attr[f].agility + w.attr[f].magic

\* how many consecutive level thresholds an experience total reaches
RECURSIVE ThresholdsCrossed(_, _, _)
ThresholdsCrossed(f, lvl, xp) ==
    LET threshold == FighterArgs[f].level_up_base + lvl * FighterArgs[f].level_up_factor
    IN IF xp >= threshold
       THEN 1 + ThresholdsCrossed(f, lvl + 1, xp - threshold)
       ELSE 0

InitFighter ==
    /\ \E rolls \in [ Fighters -> 2..4 ] :
          /\ \A f \in Fighters : rolls[f] \in HitDice(f)
          /\ \A f \in Fighters \ Targets : rolls[f] = FighterArgs[f].min_hp_per_level
          /\ InitWorld(Constructed(rolls))
    /\ handler = Handler("Main")
    /\ outcome = Outcome("none", FALSE)
    /\ audit = NoAudit

\* Fighter.take_damage(amount)
TakeDamage(f, amount) ==
    \E loot \in LootResults(World, f) :
        LET w == take_damage(World, f, amount, loot)
        IN /\ Bounded(w)
           /\ Commit(w)
           /\ audit' = [audit EXCEPT !.levelup = NoLevelUp, !.heal = NoHealEvent]
           /\ UNCHANGED << handler, outcome >>

\* Fighter.heal(amount)
Heal(f, amount) ==
    \E loot \in LootResults(World, f) :
        LET r == heal(World, f, amount, loot)
        IN /\ Bounded(r.w)
           /\ Commit(r.w)
           /\ audit' = [audit EXCEPT !.levelup = NoLevelUp, !.heal =
                  IF hp[f] = max_hp[f]
                  THEN [ at_full |-> TRUE, ret |-> r.ret ] ELSE NoHealEvent]
           /\ UNCHANGED << handler, outcome >>

\* Level.add_xp(xp) on the player's Level
AddXp(xp) ==
    LET w == add_xp(World, Player0, xp)
    IN /\ Bounded(w)
       /\ Commit(w)
       /\ UNCHANGED << handler, outcome >>
       /\ audit' = [audit EXCEPT !.levelup = NoLevelUp, !.heal = NoHealEvent, !.xp =
              [ valid |-> ~requires_level_up(World, Player0),
                level_before |-> level[Player0].current_level,
                points_before |-> StatPoints(World, Player0),
                crossed |-> ThresholdsCrossed(Player0, level[Player0].current_level,
                                              w.level[Player0].current_xp) ]]

\* EventHandler.on_render opens the LevelUpEventHandler while a level-up is
\* required; its confirm key, with three attributes chosen, applies one level.
LevelUp(stats, roll) ==
    /\ requires_level_up(World, Player0)
    /\ LET w == increase_level(World, Player0, stats, roll)
       IN /\ Bounded(w)
          /\ Commit(w)
          /\ audit' = [audit EXCEPT !.heal = NoHealEvent, !.levelup =
                 [ called |-> TRUE, stats |-> stats, roll |-> roll,
                   level_before |-> level[Player0], level_after |-> w.level[Player0],
                   attr_before |-> attr[Player0], attr_after |-> w.attr[Player0],
                   hp_before |-> hp[Player0], hp_after |-> w.hp[Player0],
                   max_hp_before |-> max_hp[Player0],
                   max_hp_after |-> w.max_hp[Player0] ]]
    /\ UNCHANGED << handler, outcome >>

NextFighter ==
    \/ \E f \in Targets, amount \in Amounts : TakeDamage(f, amount)
    \/ \E f \in Targets, amount \in Amounts : Heal(f, amount)
    \/ \E xp \in XpGrants : AddXp(xp)
    \/ \E stats \in StatChoices, roll \in HitDice(Player0) : LevelUp(stats, roll)

SpecFighter == InitFighter /\ [][NextFighter]_vars

\* C1: every combatant's current HP stays within 0 .. max_hp, whatever amounts
\* take_damage and heal are given and however HP grows on a level-up.
C1_HpWithinBounds == \A f \in Fighters : 0 <= hp[f] /\ hp[f] <= max_hp[f]

\* a level-up grew the HP of a player that had been damaged, healed and is below its maximum
C1_Witness ==
    /\ level[Player0].current_level > 1
    /\ attr[Player0].perseverance > 1
    /\ hp[Player0] > 0
    /\ hp[Player0] < max_hp[Player0]
    /\ log.deaths[Player0] > 0

\* C9: when one add_xp call (no level-up pending before it) lifts current_xp past
\* two consecutive thresholds, then once no level-up is required any more the
\* player is two levels higher, has received three attribute points per level,
\* and current_xp is below experience_to_next_level.
C9_TwoThresholdsTwoLevels ==
    ( /\ audit.xp.valid
      /\ audit.xp.crossed = 2
      /\ ~requires_level_up(World, Player0) )
    => /\ level[Player0].current_level = audit.xp.level_before + 2
       /\ StatPoints(World, Player0) = audit.xp.points_before + 6
       /\ level[Player0].current_xp < experience_to_next_level(World, Player0)

\* a grant that crossed two thresholds has been worked off by two level-ups
C9_Witness ==
    /\ audit.xp.valid
    /\ audit.xp.crossed = 2
    /\ ~requires_level_up(World, Player0)
    /\ level[Player0].current_level = audit.xp.level_before + 2

(***************************************************************************)
(* Mana.  Every fighter the factories build has the default mana of 0, a   *)
(* pool in which nothing can move.  SpecMana therefore starts from         *)
(* fighters built as Fighter(..., mana=m) for m in 0..MaxMana.             *)
(***************************************************************************)
MaxMana == 3

\* the mana setter without its clamp: C13 rests on the clamp
set_mana_unclamped(w, f, value) == [w EXCEPT !.attr[f].mana = value]

\* the mana setter
set_mana(w, f, value) ==
    [w EXCEPT !.attr[f].mana = Max(0, Min(value, w.attr[f].max_mana))]

\* restore_mana returns the amount recovered next to the world
restore_mana(w, f, amount) ==
    IF w.attr[f].mana = w.attr[f].max_mana
    THEN [ w |-> w, ret |-> 0 ]
    ELSE [ w |-> set_mana(w, f, Min(w.attr[f].mana + amount, w.attr[f].max_mana)),
           ret |-> Min(w.attr[f].mana + amount, w.attr[f].max_mana) - w.attr[f].mana ]

\* Fighter.__init__ with mana=m: the pool starts full
WithMana(w, pool) ==
    [w EXCEPT !.attr = [f \in Fighters |->
        [w.attr[f] EXCEPT !.max_mana = pool[f], !.mana = pool[f]]]]

ManaValues == (0 - 2) .. (MaxMana + 2)

InitMana ==
    /\ \E pool \in [Fighters -> 0 .. MaxMana] :
         InitWorld(WithMana(Constructed([f \in Fighters |-> FighterArgs[f].min_hp_per_level]),
                            pool))
    /\ handler = Handler("Main")
    /\ outcome = Outcome("none", FALSE)
    /\ audit = NoAudit

\* fighter.mana = value
SetMana ==
    \E f \in Fighters, value \in ManaValues :
        /\ Commit(set_mana(World, f, value))
        /\ audit' = [audit EXCEPT !.mana = NoManaEvent]
        /\ UNCHANGED << handler, outcome >>

\* fighter.restore_mana(amount)
RestoreMana ==
    \E f \in Fighters, amount \in ManaValues :
        /\ Commit(restore_mana(World, f, amount).w)
        /\ audit' = [audit EXCEPT !.mana =
               [ called |-> TRUE, at_full |-> attr[f].mana = attr[f].max_mana,
                 ret |-> restore_mana(World, f, amount).ret ]]
        /\ UNCHANGED << handler, outcome >>

NextMana == SetMana \/ RestoreMana

SpecMana == InitMana /\ [][NextMana]_vars

\* C13: every fighter's mana stays within 0..max_mana whatever is assigned to
\* it or restored, and restore_mana on a full pool returns 0.
C13_ManaWithinBounds ==
    /\ \A f \in Fighters : 0 <= attr[f].mana /\ attr[f].mana <= attr[f].max_mana
    /\ audit.mana.at_full => audit.mana.ret = 0

\* restore_mana was called on a full pool that is not empty, and another
\* fighter's pool has been drained
C13_Witness ==
    /\ audit.mana.called /\ audit.mana.at_full /\ audit.mana.ret = 0
    /\ attr[Player0].mana = attr[Player0].max_mana
    /\ attr[Player0].max_mana = MaxMana
    /\ \E f \in Fighters : attr[f].max_mana > 0 /\ attr[f].mana = 0

\* C12: heal(amount) on a combatant at full HP returns 0 and changes nothing:
\* hp, max_hp, liveness, progression and the message log stay as they were.
C12_HealAtFullChangesNothing ==
    [][ audit'.heal.at_full
          => /\ audit'.heal.ret = 0
             /\ UNCHANGED << hp, max_hp, ai, group_ai, attr, level, log >> ]_vars

\* heal was called on a living fighter at full HP
C12_Witness ==
    /\ audit.heal.at_full
    /\ audit.heal.ret = 0
    /\ hp[Player0] = max_hp[Player0]
    /\ ai[Player0]

(***************************************************************************)
(* Actions and consumables                                                 *)
(***************************************************************************)
Gone == << "gone", "gone" >>

\* the items lying on the tile the player stands on
ItemsHere(w) == w.entities \cap Items

\* PickupAction.perform, for the item the loop over game_map.items meets first
PickupAction_perform(w, f, item) ==
    IF Len(w.inventory[f].items) >= FighterArgs[f].capacity
    THEN Raise(w)
    ELSE add_item([w EXCEPT !.entities = @ \ {item}, !.item_parent[item] = InvOf(f)],
                  f, item)

\* Inventory.drop
drop(w, f, item) == place(remove_item(w, f, item), item)

\* EquipAction.perform
EquipAction_perform(w, f, slot, item) ==
    IF item_is_equipped(w, f, slot)
    THEN unequip_from_slot(w, f, slot)
    ELSE equip_to_slot(w, f, slot, item)

\* how many places hold the item: the map's entities, inventory stacks, slots
CountIn(seq, item) == Cardinality({ k \in DOMAIN seq : seq[k] = item })

HeldBy(w, f, item) ==
    CountIn(FlattenStacks(w.inventory[f].items), item)
        + Cardinality({ s \in Slots : w.equipment[f].items[s] = item })

Occurrences(w, item) ==
    (IF item \in w.entities THEN 1 ELSE 0)
        + HeldBy(w, "player", item) + HeldBy(w, "e1", item) + HeldBy(w, "e2", item)

\* Consumable.consume: the item leaves the inventory its parent names; an item
\* that nothing holds any more is gone
consume(w, item) ==
    LET owners == { f \in Fighters : w.item_parent[item] = InvOf(f) }
        f == CHOOSE g \in owners : TRUE
        w1 == remove_item(w, f, item)
    IN IF owners = {} THEN w
       ELSE IF Occurrences(w1, item) = 0
            THEN [w1 EXCEPT !.item_parent[item] = Gone]
            ELSE w1

\* HealingConsumable.activate
HealAmounts == 1 .. MaxAmount

HealingConsumable_activate(w, f, item, amount) ==
    LET r == heal(w, f, amount, << >>)
    IN IF r.ret > 0 THEN consume(r.w, item) ELSE Raise(w)

(***************************************************************************)
(* EventHandler.handle_events and handle_action                            *)
(***************************************************************************)
\* LootEventHandler.__init__
RECURSIVE RosterItems(_, _)
RosterItems(w, roster) ==
    IF roster = << >> THEN << >>
    ELSE FlattenStacks(w.inventory[Head(roster)].items) \o RosterItems(w, Tail(roster))

RECURSIVE RosterGold(_, _)
RosterGold(w, roster) ==
    IF roster = << >> THEN 0
    ELSE w.inventory[Head(roster)].gold + RosterGold(w, Tail(roster))

LootEventHandler(w) ==
    [ Handler("Loot") EXCEPT !.items = RosterItems(w, Roster(w.active_enemies)),
                             !.gold = RosterGold(w, Roster(w.active_enemies)) ]

\* handle_events that looks at the roster before it looks at the player: C20
\* rests on the order of the two tests
NextHandler_roster_first(w) ==
    IF w.in_combat /\ ~Group_is_alive(w, w.active_enemies) THEN LootEventHandler(w)
    ELSE IF ~Group_is_alive(w, EnginePlayer) THEN Handler("GameOver")
    ELSE IF w.in_combat THEN Handler("Combat")
    ELSE Handler("Main")

\* the handler handle_events returns after a performed action
NextHandler(w) ==
    IF ~Group_is_alive(w, EnginePlayer) THEN Handler("GameOver")
    ELSE IF w.in_combat
         THEN IF ~Group_is_alive(w, w.active_enemies)
              THEN LootEventHandler(w)
              ELSE Handler("Combat")
         ELSE Handler("Main")

\* what handle_events changes itself when the roster is dead
DetachRoster(w) ==
    IF Group_is_alive(w, EnginePlayer) /\ w.in_combat /\ ~Group_is_alive(w, w.active_enemies)
    THEN [w EXCEPT !.entities = @ \ {w.active_enemies}, !.in_combat = FALSE]
    ELSE w

\* handle_events for an action: w is the world perform() left, turns the world
\* after the enemy turns that follow a performed action
handle_events(w, turns) ==
    IF w.raised
    THEN /\ Commit(w)
         /\ handler' = handler
         /\ outcome' = Outcome("Impossible", FALSE)
    ELSE /\ Commit(DetachRoster(turns))
         /\ handler' = NextHandler(turns)
         /\ outcome' = Outcome("performed", TRUE)

\* handle_events when dispatch returns a handler
SwitchHandler(h) ==
    /\ handler' = h
    /\ outcome' = Outcome("handler", FALSE)
    /\ UNCHANGED << hp, max_hp, ai, group_ai, attr, level, equipment, inventory,
                    item_parent, entities, in_combat, active_enemies, log >>

\* an exception other than Impossible leaves handle_events and is logged by main
UncaughtError ==
    /\ outcome' = Outcome("error", FALSE)
    /\ UNCHANGED << hp, max_hp, ai, group_ai, attr, level, equipment, inventory,
                    item_parent, entities, in_combat, active_enemies, log, handler >>

\* Engine.handle_enemy_turns while roaming: the hostile group is out of reach
RoamingEnemyTurns(w) == w

AuditMenu == audit' = [audit EXCEPT !.equip = NoEquipCall]
AuditOther == audit' = [audit EXCEPT !.equip = NoEquipCall, !.round_trip = NoRoundTrip]

(***************************************************************************)
(* Attack rolls and the attack abilities                                   *)
(***************************************************************************)
\* sys.maxsize, the value roll_attack returns for a critical hit: the largest
\* integer of the model stands for the largest integer of the platform
sys_maxsize == 2147483647

weapon_crit_threshold == 20

SlotFigures(w, f, slot) ==
    IF slot = "MAINHAND" THEN w.equipment[f].mainhand ELSE w.equipment[f].offhand

\* the weapon types a class is proficient with
ProficientTypes(fighter_class) ==
    IF fighter_class = "ROGUE" THEN {"AGILITY", "FINESSE"}
    ELSE IF fighter_class = "WARRIOR" THEN {"STRENGTH", "FINESSE"}
    ELSE {"MAGIC"}

weapon_base_attack_bonus(w, f, slot) ==
    ((w.attr[f].agility + w.equipment[f].agility_bonus) \div 2)
        + (IF /\ w.equipment[f].items[slot] # NoItem
              /\ ItemDef[w.equipment[f].items[slot]].equippable = "Weapon"
              /\ ItemDef[w.equipment[f].items[slot]].weapon_type
                    \in ProficientTypes(FighterArgs[f].fighter_class)
           THEN Level_proficiency(w, f) ELSE 0)

\* mainhand_attack_bonus and offhand_attack_bonus
weapon_attack_bonus(w, f, slot) ==
    weapon_base_attack_bonus(w, f, slot) + SlotFigures(w, f, slot).attack_bonus

\* the faces of the die of roll_attack
D20 == 20

\* advantage that keeps the lower of the two draws: C11 rests on the maximum
LowerOfTwo(r1, r2, advantage) == IF advantage THEN Min(r1, r2) ELSE r1

\* roll_attack: the roll after the advantage re-roll
AdvantageRoll(r1, r2, advantage) == IF advantage THEN Max(r1, r2) ELSE r1

\* roll_attack without the critical sentinel: C14 rests on the sentinel
roll_attack_without_sentinel(roll, crit_threshold, attack_bonus) == roll + attack_bonus

\* roll_attack from the roll on, for the d20 it rolled
roll_attack(roll, crit_threshold, attack_bonus) ==
    IF roll >= crit_threshold THEN sys_maxsize ELSE roll + attack_bonus

roll_weapon_attack(w, f, slot, roll) ==
    roll_attack(roll, weapon_crit_threshold, weapon_attack_bonus(w, f, slot))

\* roll_weapon_damage, for the damage die it rolled
roll_weapon_damage(w, f, slot, die_roll) ==
    ((w.attr[f].strength + w.equipment[f].strength_bonus) \div 2) + die_roll

\* an off-hand strike skipped for an empty slot only: C24 rests on the test of
\* the equipment type
OffhandSkipped_when_empty(w, f, slot) ==
    slot = "OFFHAND" /\ ~item_is_equipped(w, f, slot)

\* the off-hand strike is skipped for an empty slot, a shield or a focus
OffhandSkipped(w, f, slot) ==
    /\ slot = "OFFHAND"
    /\ \/ ~item_is_equipped(w, f, slot)
       \/ ItemDef[w.equipment[f].items[slot]].equipment_type # "WEAPON"

\* WeaponAttack.perform whose miss branch is gone: C15 rests on the branch
WeaponAttack_perform_never_missing(w, caster, target, slot, r) ==
    IF OffhandSkipped(w, caster, slot) THEN w
    ELSE LET rolled == roll_weapon_attack(w, caster, slot, r.roll)
             damage == (IF rolled = sys_maxsize
                        THEN roll_weapon_damage(w, caster, slot, r.crit_die) ELSE 0)
                       + roll_weapon_damage(w, caster, slot, r.die) - armor(w, target)
         IN IF damage > 0 THEN set_hp(w, target, w.hp[target] - damage, r.loot)
            ELSE w

\* WeaponAttack.perform; r holds what the strike draws: the d20, the damage die
\* of a critical hit, the damage die, and the loot roll of a death it causes
WeaponAttack_perform(w, caster, target, slot, r) ==
    IF OffhandSkipped(w, caster, slot) THEN w
    ELSE LET rolled == roll_weapon_attack(w, caster, slot, r.roll)
             attack == rolled - avoidance(w, target)
             damage == (IF rolled = sys_maxsize
                        THEN roll_weapon_damage(w, caster, slot, r.crit_die) ELSE 0)
                       + roll_weapon_damage(w, caster, slot, r.die) - armor(w, target)
         IN IF attack < 0 THEN w
            ELSE IF damage > 0 THEN set_hp(w, target, w.hp[target] - damage, r.loot)
            ELSE w

\* the locals of WeaponAttack.perform after its two adjustments, and the
\* message it adds to the log
WeaponAttack_attack(w, caster, target, slot, r) ==
    roll_weapon_attack(w, caster, slot, r.roll) - avoidance(w, target)

WeaponAttack_damage(w, caster, target, slot, r) ==
    (IF roll_weapon_attack(w, caster, slot, r.roll) = sys_maxsize
     THEN roll_weapon_damage(w, caster, slot, r.crit_die) ELSE 0)
        + roll_weapon_damage(w, caster, slot, r.die) - armor(w, target)

WeaponAttack_message(w, caster, target, slot, r) ==
    IF OffhandSkipped(w, caster, slot) THEN "none"
    ELSE IF WeaponAttack_attack(w, caster, target, slot, r) < 0 THEN "but misses."
    ELSE IF WeaponAttack_damage(w, caster, target, slot, r) > 0 THEN "for hit points."
    ELSE "but does no damage."

\* the d20 values explored: a low roll, a middling roll and a critical hit
AttackRolls == {1, 10, 20}

\* the damage dice explored: the lowest and the highest face
DamageDice(w, f, slot) ==
    { SlotFigures(w, f, slot).min_damage, SlotFigures(w, f, slot).max_damage }

NoDraw == [ roll |-> 0, crit_die |-> 0, die |-> 0, loot |-> << >> ]

\* the draws of one strike that lead to different results
Draws(w, caster, target, slot, rolls) ==
    IF OffhandSkipped(w, caster, slot) THEN { NoDraw }
    ELSE { r \in [ roll : rolls, crit_die : DamageDice(w, caster, slot) \cup {0},
                   die : DamageDice(w, caster, slot) \cup {0},
                   loot : LootResults(w, target) ] :
             /\ r.loot # << >> => FighterArgs[target].is_enemy
             /\ IF roll_weapon_attack(w, caster, slot, r.roll) - avoidance(w, target) < 0
                THEN r.crit_die = 0 /\ r.die = 0 /\ r.loot = << >>
                ELSE /\ r.die \in DamageDice(w, caster, slot)
                     /\ IF r.roll >= weapon_crit_threshold
                        THEN r.crit_die \in DamageDice(w, caster, slot)
                        ELSE r.crit_die = 0 }

Strikes(w, caster, target, slot, rolls) ==
    { WeaponAttack_perform(w, caster, target, slot, r) :
        r \in Draws(w, caster, target, slot, rolls) }

\* MeleeAttack.perform: the worlds the two strikes can leave
MeleeAttack_perform(w, caster, target, rolls) ==
    UNION { Strikes(w1, caster, target, "OFFHAND", rolls) :
              w1 \in Strikes(w, caster, target, "MAINHAND", rolls) }

\* BumpAction.perform of entity with target_actor in its way
BumpAction_between(w, entity, target_actor) ==
    IF target_actor # EnginePlayer /\ entity # EnginePlayer
    THEN [w EXCEPT !.in_combat = TRUE]
    ELSE [w EXCEPT !.in_combat = TRUE,
                   !.active_enemies = IF entity = EnginePlayer THEN target_actor
                                      ELSE entity]

\* BumpAction.perform of the player into the hostile group
BumpAction_perform(w, group) == BumpAction_between(w, EnginePlayer, group)

(***************************************************************************)
(* Specification SpecEquip: the player roams and uses the inventory, drop, *)
(* unequip and weapon-slot menus.                                          *)
(***************************************************************************)
FloorItems == << "dagger2", "club", "greataxe", "rat1" >>

\* A floor right after new_game: the rogue's loadout, the hostile group and the
\* items of the floor.  The enemies roll their lowest hit die.
InitEquip ==
    /\ \E rolls \in [ Fighters -> 2..4 ] :
          /\ \A f \in Fighters : rolls[f] \in HitDice(f)
          /\ \A f \in Fighters \ {Player0} : rolls[f] = FighterArgs[f].min_hp_per_level
          /\ \E w0 \in { Constructed(rolls) } :
             \E w1 \in { new_game(w0) } :
             \E w2 \in { Janitor(w1) } :
             \E w3 \in { Lumberjack(w2) } :
             \E w4 \in { place_all(w3, FloorItems) } :
                InitWorld([w4 EXCEPT !.entities = @ \cup {"eg"}])
    /\ handler = Handler("Main")
    /\ outcome = Outcome("none", FALSE)
    /\ audit = NoAudit

Menus == {"InventoryActivate", "InventoryDrop", "Unequip"}

\* MainGameEventHandler.ev_keydown: the keys i, d and u
OpenMenu(name) ==
    /\ handler.name = "Main"
    /\ SwitchHandler(Handler(name))
    /\ AuditMenu

\* Escape in a menu
MenuEscape ==
    /\ handler.name \in Menus \cup {"EquipWeapon"}
    /\ SwitchHandler(IF handler.name = "EquipWeapon"
                     THEN Handler("InventoryActivate") ELSE Handler("Main"))
    /\ AuditMenu

\* MainGameEventHandler.ev_keydown: the key g
Pickup ==
    /\ handler.name = "Main"
    /\ IF ItemsHere(World) = {}
       THEN handle_events(Raise(World), World)
       ELSE \E item \in ItemsHere(World) :
               LET w == PickupAction_perform(World, Player0, item)
               IN handle_events(w, RoamingEnemyTurns(w))
    /\ AuditOther

\* InventoryDropHandler.on_item_selected
InventoryDrop_on_item_selected(k) ==
    /\ handler.name = "InventoryDrop"
    /\ k \in DOMAIN inventory[Player0].items
    /\ LET w == drop(World, Player0, inventory[Player0].items[k][1])
       IN handle_events(w, RoamingEnemyTurns(w))
    /\ AuditOther

\* an EquipAction returned by a handler, performed on world w: the history
\* records the equip_to_slot call it makes
RecordEquip(w, w2, slot, item, while_two_handed) ==
    IF item_is_equipped(w, Player0, slot)
    THEN AuditOther
    ELSE audit' =
           [ audit EXCEPT
               !.equip = [ returned |-> ~w2.raised, slot |-> slot, item |-> item,
                           prev_offhand |-> w.equipment[Player0].items["OFFHAND"],
                           while_two_handed |-> while_two_handed ],
               !.round_trip = IF w2.raised THEN NoRoundTrip
                              ELSE [ phase |-> "equipped", slot |-> slot, item |-> item,
                                     before |-> w.equipment[Player0] ] ]

EquipStep(w, slot, item, while_two_handed) ==
    LET w2 == EquipAction_perform(w, Player0, slot, item)
    IN /\ handle_events(w2, RoamingEnemyTurns(w2))
       /\ RecordEquip(w, w2, slot, item, while_two_handed)

\* the test of on_item_selected without its two_handed half: C7 rests on it
RedirectsToMainhand_ignoring_two_handed(w, f, item) == ~ItemDef[item].offhand

\* InventoryActivateHandler.on_item_selected: a weapon goes to the main hand when
\* it cannot be held in the off hand or the main hand holds a two-handed weapon
RedirectsToMainhand(w, f, item) ==
    \/ ~ItemDef[item].offhand
    \/ ItemDef[w.equipment[f].items["MAINHAND"]].two_handed

\* InventoryActivateHandler.on_item_selected
InventoryActivate_on_item_selected(k) ==
    /\ handler.name = "InventoryActivate"
    /\ k \in DOMAIN inventory[Player0].items
    /\ LET item == inventory[Player0].items[k][1]
           mainhand == equipment[Player0].items["MAINHAND"]
       IN IF ItemDef[item].consumable = "healing"
          THEN /\ \E amount \in HealAmounts :
                     LET w == HealingConsumable_activate(World, Player0, item, amount)
                     IN handle_events(w, RoamingEnemyTurns(w))
               /\ AuditOther
          ELSE IF ItemDef[item].equipment_type = "WEAPON"
          THEN IF ~item_is_equipped(World, Player0, "MAINHAND")
               THEN EquipStep(World, "MAINHAND", item, FALSE)
               ELSE IF RedirectsToMainhand(World, Player0, item)
               THEN LET w1 == unequip_from_slot(World, Player0, "MAINHAND")
                    IN IF w1.raised
                       THEN handle_events(w1, w1) /\ AuditOther
                       ELSE EquipStep(w1, "MAINHAND", item, ItemDef[mainhand].two_handed)
               ELSE IF equipment[Player0].items["OFFHAND"] = NoItem
               THEN EquipStep(World, "OFFHAND", item, FALSE)
               ELSE /\ SwitchHandler([ Handler("EquipWeapon") EXCEPT !.item = item ])
                    /\ AuditMenu
          \* EquipmentSlot(item.equippable.equipment_type): an EquipmentType is no
          \* value of EquipmentSlot, the call raises ValueError
          ELSE UncaughtError /\ AuditMenu

\* UnequipEventHandler.on_item_selected and the EquipAction it returns
Unequip_on_item_selected(slot) ==
    /\ handler.name = "Unequip"
    /\ equipment[Player0].items[slot] # NoItem
    /\ LET w == EquipAction_perform(World, Player0, slot, equipment[Player0].items[slot])
       IN /\ handle_events(w, RoamingEnemyTurns(w))
          /\ IF ~w.raised /\ audit.round_trip.phase = "equipped"
                /\ audit.round_trip.slot = slot
             THEN audit' = [audit EXCEPT !.equip = NoEquipCall, !.round_trip.phase = "done"]
             ELSE AuditOther

\* EquipWeaponEventHandler.on_slot_selected and the EquipAction it returns
EquipWeapon_on_slot_selected(slot) ==
    /\ handler.name = "EquipWeapon"
    /\ LET w1 == unequip_from_slot(World, Player0, slot)
       IN IF w1.raised
          THEN handle_events(w1, w1) /\ AuditOther
          ELSE EquipStep(w1, slot, handler.item, FALSE)

NextEquip ==
    \/ \E name \in Menus : OpenMenu(name)
    \/ MenuEscape
    \/ Pickup
    \/ \E k \in 1..(Capacity + 1) : InventoryDrop_on_item_selected(k)
    \/ \E k \in 1..(Capacity + 1) : InventoryActivate_on_item_selected(k)
    \/ \E slot \in Slots : Unequip_on_item_selected(slot)
    \/ \E slot \in {"MAINHAND", "OFFHAND"} : EquipWeapon_on_slot_selected(slot)

SpecEquip == InitEquip /\ [][NextEquip]_vars

\* The contributions of the items in the slots, as on_equip adds them.
SlotArmor(w, f, s) ==
    IF w.equipment[f].items[s] = NoItem THEN 0 ELSE ItemDef[w.equipment[f].items[s]].armor_bonus
SlotPenalty(w, f, s) ==
    IF w.equipment[f].items[s] = NoItem THEN 0 ELSE ItemDef[w.equipment[f].items[s]].agility_penalty
RECURSIVE SumOver(_, _, _, _)
SumOver(Op(_, _, _), w, f, slots) ==
    IF slots = {} THEN 0
    ELSE LET s == CHOOSE x \in slots : TRUE
         IN Op(w, f, s) + SumOver(Op, w, f, slots \ {s})

\* C4: the running totals of every Equipment are the sums of the on_equip
\* contributions of the items its slots hold.
C4_TotalsMatchSlots ==
    \A f \in Fighters :
        /\ equipment[f].armor_bonus = SumOver(SlotArmor, World, f, Slots)
        /\ equipment[f].agility_bonus = 0 - SumOver(SlotPenalty, World, f, Slots)
        /\ equipment[f].strength_bonus = 0
        /\ equipment[f].perseverance_bonus = 0
        /\ equipment[f].magic_bonus = 0
        /\ equipment[f].avoidance_bonus = 0

\* the bonus fields an equip may touch: the stat bonuses, armor and avoidance,
\* and the figures of the weapon slot concerned
BonusFields(e, slot) ==
    [ strength_bonus |-> e.strength_bonus, perseverance_bonus |-> e.perseverance_bonus,
      agility_bonus |-> e.agility_bonus, magic_bonus |-> e.magic_bonus,
      armor_bonus |-> e.armor_bonus, avoidance_bonus |-> e.avoidance_bonus,
      figures |-> IF slot = "MAINHAND" THEN e.mainhand
                  ELSE IF slot = "OFFHAND" THEN e.offhand ELSE UnsetFigures ]

Holders(w, item) ==
    (IF item \in w.entities THEN {TheMap} ELSE {})
        \cup { InvOf(f) : f \in { g \in Fighters : has_item(w, g, item) } }
        \cup { EquipOf(f) : f \in { g \in Fighters :
                                      \E s \in Slots : w.equipment[g].items[s] = item } }

\* C8: every item is held by exactly one container, and its parent names that
\* container.  Items not yet placed, and consumed items, are held by none.
C8_SingleOwner ==
    \A item \in Items :
        IF item_parent[item] \in {NoParent, Gone}
        THEN Occurrences(World, item) = 0
        ELSE /\ Occurrences(World, item) = 1
             /\ Holders(World, item) = {item_parent[item]}

\* C10: an action that ends in Impossible leaves everything but the message
\* log as it was, and no enemy turn runs for it.
C10_ImpossibleChangesNothing ==
    [][ outcome'.result = "Impossible"
          => /\ UNCHANGED << hp, max_hp, ai, group_ai, attr, level, equipment, inventory,
                             item_parent, entities, in_combat, active_enemies >>
             /\ ~outcome'.enemy_turn ]_vars

(***************************************************************************)
(* Specification SpecCombat: the player bumps into the hostile group,      *)
(* fights it with weapon attacks and collects the loot.                    *)
(***************************************************************************)
\* the d20 values the enemies roll
EnemyRolls == {1, 15}

\* One enemy's turn in combat: a living enemy uses its weapon attack on the
\* player while the player lives.
EnemyTurn(w, e) ==
    IF is_alive(w, e) /\ is_alive(w, Player0)
    THEN MeleeAttack_perform(w, e, Player0, EnemyRolls)
    ELSE { w }

\* Engine.handle_enemy_turns in combat: the roster acts in roster order
RECURSIVE CombatEnemyTurns(_, _)
CombatEnemyTurns(worlds, roster) ==
    IF roster = << >> THEN worlds
    ELSE CombatEnemyTurns(UNION { EnemyTurn(w, Head(roster)) : w \in worlds },
                          Tail(roster))

\* a player who went through the menus before the fight: a second dagger in the
\* off hand, the inventory full
DualWield(w) ==
    PickupAction_perform(
        PickupAction_perform(
            equip_to_slot(PickupAction_perform(w, Player0, "dagger2"),
                          Player0, "OFFHAND", "dagger2"),
            Player0, "rat1"),
        Player0, "club")

InitCombat ==
    /\ \E rolls \in [ Fighters -> 2..4 ] :
          /\ \A f \in Fighters : rolls[f] \in HitDice(f)
          /\ \A f \in Fighters \ {Player0} : rolls[f] = FighterArgs[f].min_hp_per_level
          /\ \E w0 \in { Constructed(rolls) } :
             \E w1 \in { new_game(w0) } :
             \E w2 \in { Janitor(w1) } :
             \E w3 \in { Lumberjack(w2) } :
             \E w4 \in { place_all(w3, FloorItems) } :
             \E w5 \in { [w4 EXCEPT !.entities = @ \cup {"eg"}] } :
             \E w6 \in { w5, DualWield(w5) } :
                InitWorld(w6)
    /\ handler = Handler("Main")
    /\ outcome = Outcome("none", FALSE)
    /\ audit = NoAudit

\* MainGameEventHandler.ev_keydown: a move key towards the hostile group
Bump ==
    /\ handler.name = "Main"
    /\ "eg" \in entities
    /\ \E w \in { BumpAction_perform(World, "eg") } :
       \E turns \in { RoamingEnemyTurns(w) } :
          handle_events(w, turns)
    /\ AuditOther

\* CombatEventHandler.ev_keydown: confirm on "Attack"
Combat_Attack ==
    /\ handler.name = "Combat"
    /\ SwitchHandler(Handler("SelectTarget"))
    /\ AuditOther

\* SelectTargetEventHandler.ev_keydown: Escape
SelectTarget_Escape ==
    /\ handler.name = "SelectTarget"
    /\ SwitchHandler(Handler("Combat"))
    /\ AuditOther

\* SelectTargetEventHandler.ev_keydown: confirm on the enemy under the cursor
SelectTarget_Confirm(target) ==
    /\ handler.name = "SelectTarget"
    /\ target \in SeqSet(Roster(active_enemies))
    /\ IF is_alive(World, target)
       THEN \E w \in MeleeAttack_perform(World, Player0, target, AttackRolls) :
            \E turns \in CombatEnemyTurns({ w }, Roster(w.active_enemies)) :
               /\ Bounded(turns)
               /\ handle_events(w, turns)
       ELSE SwitchHandler(handler)
    /\ AuditOther

\* leaving the screen without the statement inventory.gold += self.gold
LootLeft_without_gold(w) ==
    /\ Commit(w)
    /\ handler' = Handler("Main")
    /\ outcome' = Outcome("handler", FALSE)

\* LootEventHandler.ev_keydown leaving the screen: the gold goes to the player
LootLeft(w) ==
    /\ Commit([w EXCEPT !.inventory[Player0].gold = @ + handler.gold])
    /\ handler' = Handler("Main")
    /\ outcome' = Outcome("handler", FALSE)

LootAudit(key, k, raised) ==
    audit' = [audit EXCEPT !.equip = NoEquipCall, !.round_trip = NoRoundTrip,
        !.loot = [ key |-> key, k |-> k,
                   items_before |-> handler.items,
                   items_after |-> IF handler'.name = "Loot" THEN handler'.items ELSE << >>,
                   stacks_before |-> inventory[Player0].items,
                   stacks_after |-> inventory'[Player0].items,
                   gold_before |-> inventory[Player0].gold,
                   gold_after |-> inventory'[Player0].gold,
                   pooled |-> handler.gold,
                   raised |-> raised, left |-> handler'.name # "Loot" ]]

\* confirm that does not put a refused entry back into the list: C34 rests on
\* the insert in the except clause
Loot_Confirm_dropping_refused(k) ==
    /\ handler.name = "Loot"
    /\ IF handler.items = << >>
       THEN k = 1 /\ LootLeft(World)
       ELSE /\ k \in DOMAIN handler.items
            /\ \E w \in { add_item(World, Player0, handler.items[k]) } :
                 IF w.raised
                 THEN /\ Commit(World)
                      /\ handler' = [handler EXCEPT !.items = RemoveAt(@, k)]
                      /\ outcome' = Outcome("Impossible", FALSE)
                 ELSE IF Len(handler.items) = 1
                      THEN LootLeft(w)
                      ELSE /\ Commit(w)
                           /\ handler' = [handler EXCEPT !.items = RemoveAt(@, k)]
                           /\ outcome' = Outcome("handler", FALSE)
    /\ Bounded([World EXCEPT !.inventory[Player0].gold = @ + handler.gold])
    /\ LootAudit("confirm", k,
                 handler.items # << >>
                    /\ add_item(World, Player0, handler.items[k]).raised)

\* LootEventHandler.ev_keydown: confirm with the cursor on entry k
Loot_Confirm(k) ==
    /\ handler.name = "Loot"
    /\ IF handler.items = << >>
       THEN k = 1 /\ LootLeft(World)
       ELSE /\ k \in DOMAIN handler.items
            /\ \E w \in { add_item(World, Player0, handler.items[k]) } :
                 IF w.raised
                 THEN /\ Commit(World)
                      /\ handler' = handler
                      /\ outcome' = Outcome("Impossible", FALSE)
                 ELSE IF Len(handler.items) = 1
                      THEN LootLeft(w)
                      ELSE /\ Commit(w)
                           /\ handler' = [handler EXCEPT !.items = RemoveAt(@, k)]
                           /\ outcome' = Outcome("handler", FALSE)
    /\ Bounded([World EXCEPT !.inventory[Player0].gold = @ + handler.gold])
    /\ LootAudit("confirm", k,
                 handler.items # << >>
                    /\ add_item(World, Player0, handler.items[k]).raised)

\* LootEventHandler.ev_keydown: Escape leaves what was not taken on the map
Loot_Escape ==
    /\ handler.name = "Loot"
    /\ LootLeft([World EXCEPT !.entities = @ \cup SeqSet(handler.items)])
    /\ Bounded([World EXCEPT !.inventory[Player0].gold = @ + handler.gold])
    /\ LootAudit("escape", 0, FALSE)

NextCombat ==
    \/ Bump
    \/ Combat_Attack
    \/ SelectTarget_Escape
    \/ \E target \in Fighters \ {Player0} : SelectTarget_Confirm(target)
    \/ \E k \in 1..4 : Loot_Confirm(k)
    \/ Loot_Escape

SpecCombat == InitCombat /\ [][NextCombat]_vars

\* C2: death handling runs once per combatant: no combatant's death is handled
\* (message logged, experience granted) a second time by a later damage event.
C2_DeathHandledOnce == \A f \in Fighters : log.deaths[f] <= 1

CritThresholds == {1, 10, 19, 20, 21}
AttackBonuses == (0 - 2) .. 5

InitRolls ==
    /\ \E rolls \in [ Fighters -> 2..4 ] :
          /\ \A f \in Fighters : rolls[f] = FighterArgs[f].min_hp_per_level
          /\ InitWorld(Constructed(rolls))
    /\ handler = Handler("Main")
    /\ outcome = Outcome("none", FALSE)
    /\ \E r1 \in 1..D20, r2 \in 1..D20, t \in CritThresholds, b \in AttackBonuses :
          audit = [NoAudit EXCEPT !.roll =
                     [NoRollEvent EXCEPT !.phase = "drawn", !.r1 = r1, !.r2 = r2,
                                         !.crit_threshold = t, !.attack_bonus = b]]

\* Fighter.roll_attack(crit_threshold, attack_bonus, advantage) on the same
\* draws, with and without advantage
RollAttack ==
    /\ audit.roll.phase = "drawn"
    /\ audit' = [audit EXCEPT
          !.roll.phase = "rolled",
          !.roll.with_advantage =
              roll_attack(AdvantageRoll(audit.roll.r1, audit.roll.r2, TRUE),
                          audit.roll.crit_threshold, audit.roll.attack_bonus),
          !.roll.without_advantage =
              roll_attack(AdvantageRoll(audit.roll.r1, audit.roll.r2, FALSE),
                          audit.roll.crit_threshold, audit.roll.attack_bonus)]
    /\ UNCHANGED << hp, max_hp, ai, group_ai, attr, level, equipment, inventory,
                    item_parent, entities, in_combat, active_enemies, handler, log,
                    outcome >>

NextRolls == RollAttack

SpecRolls == InitRolls /\ [][NextRolls]_vars

\* C11: on the same draws roll_attack with advantage returns at least what it
\* returns without advantage.
C11_AdvantageNeverWorse ==
    audit.roll.phase = "rolled"
        => audit.roll.with_advantage >= audit.roll.without_advantage

\* the second draw was a critical hit and the first was not
C11_Witness ==
    /\ audit.roll.phase = "rolled"
    /\ audit.roll.r1 < audit.roll.crit_threshold
    /\ audit.roll.r2 >= audit.roll.crit_threshold
    /\ audit.roll.with_advantage = sys_maxsize
    /\ audit.roll.without_advantage = audit.roll.r1 + audit.roll.attack_bonus

(***************************************************************************)
(* Specification SpecAttack: WeaponAttack.perform called for any caster,   *)
(* target, slot and draw, on the fighters of the combat specification.     *)
(* The player may have found and put on a chain mail, the armor that can   *)
(* bring a strike down to no damage.                                       *)
(***************************************************************************)
ChainMail(w) ==
    EquipAction_perform(
        unequip_from_slot(PickupAction_perform(place(w, "chain"), Player0, "chain"),
                          Player0, "ARMOR"),
        Player0, "ARMOR", "chain")

InitAttack ==
    /\ \E rolls \in [ Fighters -> 2..4 ] :
          /\ \A f \in Fighters : rolls[f] \in HitDice(f)
          /\ \E w0 \in { Constructed(rolls) } :
             \E w1 \in { new_game(w0) } :
             \E w2 \in { Janitor(w1) } :
             \E w3 \in { Lumberjack(w2) } :
             \E w4 \in { place_all(w3, FloorItems) } :
             \E w5 \in { [w4 EXCEPT !.entities = @ \cup {"eg"}] } :
             \E w6 \in { w5, DualWield(w5), ChainMail(w5) } :
                InitWorld(w6)
    /\ handler = Handler("Main")
    /\ outcome = Outcome("none", FALSE)
    /\ audit = NoAudit

\* one WeaponAttack.perform in each behaviour
Strike ==
    /\ ~audit.strike.called
    /\ \E caster \in Fighters, target \in Fighters, slot \in {"MAINHAND", "OFFHAND"} :
       \E r \in Draws(World, caster, target, slot, 1 .. D20) :
       \E w1 \in { WeaponAttack_perform(World, caster, target, slot, r) } :
        /\ caster # target
        /\ Bounded(w1)
        /\ Commit(w1)
        /\ audit' = [audit EXCEPT !.strike =
               [ called |-> TRUE,
                 skipped |-> OffhandSkipped(World, caster, slot),
                 target |-> target,
                 roll |-> r.roll,
                 rolled |-> roll_weapon_attack(World, caster, slot, r.roll),
                 attack |-> WeaponAttack_attack(World, caster, target, slot, r),
                 damage |-> WeaponAttack_damage(World, caster, target, slot, r),
                 message |-> WeaponAttack_message(World, caster, target, slot, r),
                 hp_before |-> hp[target] ]]
        /\ UNCHANGED << handler, outcome >>

NextAttack == Strike

SpecAttack == InitAttack /\ [][NextAttack]_vars

\* C14: a weapon attack whose roll, after any advantage re-roll, reaches the
\* crit threshold yields the critical sentinel and is never a miss, whatever
\* the target's avoidance.
C14_CriticalNeverMisses ==
    (/\ audit.strike.called
     /\ ~audit.strike.skipped
     /\ audit.strike.roll >= weapon_crit_threshold)
        => /\ audit.strike.rolled = sys_maxsize
           /\ audit.strike.attack >= 0
           /\ audit.strike.message # "but misses."

\* a critical strike on the target that an uncritical 19 of the same caster
\* would have missed
C14_Witness ==
    /\ audit.strike.called /\ ~audit.strike.skipped
    /\ audit.strike.roll >= weapon_crit_threshold
    /\ audit.strike.rolled = sys_maxsize
    /\ audit.strike.message = "for hit points."
    /\ audit.strike.target = Player0
    /\ hp[Player0] < audit.strike.hp_before

\* C15: every weapon attack that is not suppressed ends in exactly one of
\* three outcomes, each with its own message: a miss (attack below 0, hp
\* unchanged), a hit (attack at least 0 and damage above 0, hp lowered by the
\* damage and clamped at 0), a hit for no damage (attack at least 0 and damage
\* at most 0, hp unchanged).
C15_ThreeOutcomes ==
    (audit.strike.called /\ ~audit.strike.skipped)
        => \/ /\ audit.strike.message = "but misses."
              /\ audit.strike.attack < 0
              /\ hp[audit.strike.target] = audit.strike.hp_before
           \/ /\ audit.strike.message = "for hit points."
              /\ audit.strike.attack >= 0 /\ audit.strike.damage > 0
              /\ hp[audit.strike.target]
                    = Max(0, audit.strike.hp_before - audit.strike.damage)
           \/ /\ audit.strike.message = "but does no damage."
              /\ audit.strike.attack >= 0 /\ audit.strike.damage <= 0
              /\ hp[audit.strike.target] = audit.strike.hp_before

\* a strike that got through the avoidance and was stopped by the armor
C15_Witness ==
    /\ audit.strike.called /\ ~audit.strike.skipped
    /\ audit.strike.message = "but does no damage."
    /\ audit.strike.attack >= 0
    /\ audit.strike.damage <= 0
    /\ audit.strike.hp_before > 0

\* C16: the weapon attack bonus of a slot is half the attribute that goes with
\* the category of the weapon in it (strength for a Strength weapon, agility
\* for an Agility weapon), plus the slot's attack bonus, plus the proficiency
\* bonus when the class is proficient with the category.
C16_BonusFromRelevantAttribute ==
    \A f \in Fighters :
        (/\ equipment[f].items["MAINHAND"] # NoItem
         /\ ItemDef[equipment[f].items["MAINHAND"]].equippable = "Weapon"
         /\ ItemDef[equipment[f].items["MAINHAND"]].weapon_type \in {"STRENGTH", "AGILITY"})
            => weapon_attack_bonus(World, f, "MAINHAND")
                 = ((IF ItemDef[equipment[f].items["MAINHAND"]].weapon_type = "STRENGTH"
                     THEN attr[f].strength + equipment[f].strength_bonus
                     ELSE attr[f].agility + equipment[f].agility_bonus) \div 2)
                   + equipment[f].mainhand.attack_bonus
                   + (IF ItemDef[equipment[f].items["MAINHAND"]].weapon_type
                            \in ProficientTypes(FighterArgs[f].fighter_class)
                      THEN Level_proficiency(World, f) ELSE 0)

(***************************************************************************)
(* Specification SpecBump: BumpAction.perform called while roaming for any *)
(* two groups of the map, one in the way of the other.  "og" is a second   *)
(* hostile group, of which only the identity matters.                      *)
(***************************************************************************)
MapGroups == Groups \cup {"og"}

BumpCall ==
    \E entity \in MapGroups, target_actor \in MapGroups :
        /\ entity # target_actor
        /\ Commit(BumpAction_between(World, entity, target_actor))
        /\ audit' = [audit EXCEPT !.bump =
               [ called |-> TRUE, entity |-> entity, target_actor |-> target_actor ]]
        /\ UNCHANGED << handler, outcome >>

NextBump == BumpCall

SpecBump == InitAttack /\ [][NextBump]_vars

\* C18: the mode changes from roaming to combat only through a bump in which
\* the player's group is the bumper or the target, and active_enemies is then
\* the hostile group of that bump; a bump between two groups that are not the
\* player's leaves the mode roaming.
C18_CombatOnlyThroughPlayerBump ==
    [][ (~in_combat /\ audit'.bump.called)
          => IF EnginePlayer \in { audit'.bump.entity, audit'.bump.target_actor }
             THEN /\ in_combat'
                  /\ active_enemies'
                        \in { audit'.bump.entity, audit'.bump.target_actor } \ {EnginePlayer}
             ELSE ~in_combat' ]_vars

(***************************************************************************)
(* Specification SpecEngine: the fight of SpecCombat with the enemy phase  *)
(* of CombatEngine, the engine class of instanced combat, whose enemies    *)
(* are the fighters of the hostile roster.  What a living enemy's ai does  *)
(* is EnemyTurn; the loop around it is translated from the class.          *)
(***************************************************************************)
EngineRun(w) == [ w |-> w, acted |-> << >>, error |-> FALSE ]

\* enemy.ai.perform() of the loop: the ai of a dead fighter is None, and the
\* attribute access on it raises
CombatEngine_enemy(run, enemy) ==
    IF run.error THEN { run }
    ELSE IF ~is_alive(run.w, enemy) THEN { [run EXCEPT !.error = TRUE] }
    ELSE { [ w |-> w2, acted |-> Append(run.acted, enemy), error |-> FALSE ] :
             w2 \in EnemyTurn(run.w, enemy) }

\* CombatEngine.handle_enemy_turns
RECURSIVE CombatEngine_handle_enemy_turns(_, _)
CombatEngine_handle_enemy_turns(runs, enemies) ==
    IF enemies = << >> THEN runs
    ELSE CombatEngine_handle_enemy_turns(
             UNION { CombatEngine_enemy(run, Head(enemies)) : run \in runs },
             Tail(enemies))

\* SelectTargetEventHandler.ev_keydown: confirm on the enemy under the cursor,
\* the enemy phase run by CombatEngine
CombatEngine_Confirm(target) ==
    /\ handler.name = "SelectTarget"
    /\ target \in SeqSet(Roster(active_enemies))
    /\ is_alive(World, target)
    /\ \E w \in MeleeAttack_perform(World, Player0, target, AttackRolls) :
       \E run \in CombatEngine_handle_enemy_turns({ EngineRun(w) },
                                                  Roster(w.active_enemies)) :
          /\ Bounded(run.w)
          /\ IF run.error
             THEN /\ Commit(run.w)
                  /\ handler' = handler
                  /\ outcome' = Outcome("error", FALSE)
             ELSE handle_events(w, run.w)
          /\ audit' = [audit EXCEPT !.turn =
                 [ called |-> TRUE, acted |-> run.acted, error |-> run.error ]]

NextEngine ==
    \/ Bump
    \/ Combat_Attack
    \/ \E target \in Fighters \ {Player0} : CombatEngine_Confirm(target)

SpecEngine == InitCombat /\ [][NextEngine]_vars

\* C19: after a player action in combat every living enemy of the roster has
\* acted exactly once, in roster order; the enemies at 0 hp stay in the roster
\* and take no action.
C19_LivingEnemiesActInOrder ==
    (audit.turn.called /\ ai[Player0])
        => /\ ~audit.turn.error
           /\ audit.turn.acted = SelectSeq(Roster("eg"), LAMBDA e : ai[e])

(***************************************************************************)
(* Specification SpecDeath: the end of a fight.  What an action and the    *)
(* enemy turns after it do to the combatants is any series of take_damage  *)
(* calls on fighters still standing; handle_events then picks the handler.  *)
(***************************************************************************)
Damage ==
    /\ handler.name = "Combat"
    /\ \E f \in Fighters, amount \in 1 .. MaxAmount :
       \E loot \in LootResults(World, f) :
       \E w \in { take_damage(World, f, amount, loot) } :
          /\ hp[f] > 0
          /\ loot # << >> => FighterArgs[f].is_enemy /\ hp[f] <= amount
          /\ Bounded(w)
          /\ Commit(w)
          /\ outcome' = Outcome("none", FALSE)
          /\ UNCHANGED << handler, audit >>

\* handle_events after the action and the enemy turns
Resolve ==
    /\ handler.name = "Combat"
    /\ outcome.result = "none"
    /\ handle_events(World, World)
    /\ UNCHANGED audit

NextDeath == Bump \/ Damage \/ Resolve

SpecDeath == InitCombat /\ [][NextDeath]_vars

\* C20: when the player's hp reaches 0 no loot roll is requested and no XP is
\* added to any progression record, and the handler returned for the action
\* is the game-over handler, even when every enemy of the roster died in the
\* same action.
C20_PlayerDeathEndsGame ==
    [][ /\ (hp[Player0] > 0 /\ hp'[Player0] = 0)
             => /\ level' = level
                /\ log'.loot_rolls = log.loot_rolls
                /\ inventory' = inventory
                /\ ~ai'[Player0]
        /\ (outcome'.result = "performed" /\ hp'[Player0] = 0)
             => /\ handler'.name = "GameOver"
                /\ log'.loot_rolls[Player0] = 0
                /\ in_combat' = in_combat /\ entities' = entities ]_vars

\* the player and every enemy of the roster died in one action, and the game
\* is over
C20_Witness ==
    /\ hp[Player0] = 0 /\ ~ai[Player0]
    /\ \A e \in SeqSet(Roster("eg")) : hp[e] = 0 /\ ~ai[e]
    /\ outcome.result = "performed"
    /\ handler.name = "GameOver"
    /\ in_combat
    /\ level[Player0].current_xp > 0

(***************************************************************************)
(* Abilities.  Nothing in the sources builds an ability with a cooldown    *)
(* or calls start_cooldown or reduce_cooldown.  SpecAbility gives the      *)
(* player the list [WeaponAttack(cooldown=c), MeleeAttack] for c in        *)
(* 0..MaxCooldown, and lets the two methods be called on the player's      *)
(* abilities between two events of the combat menu.                        *)
(***************************************************************************)
MaxCooldown == 2

\* reduce_cooldown without its floor: C23 rests on the floor
reduce_cooldown_unclamped(a) == [a EXCEPT !.cooldown_remaining = @ - 1]

reduce_cooldown(a) == [a EXCEPT !.cooldown_remaining = Max(0, @ - 1)]

start_cooldown(a) == [a EXCEPT !.cooldown_remaining = a.cooldown]

is_on_cooldown(a) == a.cooldown_remaining > 0

\* an ability menu that hands over whatever is under the cursor: C21 rests on
\* its test
AbilityReady_unchecked(a) == TRUE

\* SelectAbilityEventHandler.ev_keydown: the test before the ability is
\* handed over
AbilityReady(a) == a.cooldown_remaining <= 0

WithAbilities(w, f, abilities) == [w EXCEPT !.attr[f].abilities = abilities]

InitAbility ==
    /\ \E rolls \in [ Fighters -> 2..4 ], c \in 0 .. MaxCooldown :
          /\ \A f \in Fighters : rolls[f] \in HitDice(f)
          /\ \A f \in Fighters \ {Player0} : rolls[f] = FighterArgs[f].min_hp_per_level
          /\ \E w0 \in { Constructed(rolls) } :
             \E w1 \in { new_game(w0) } :
             \E w2 \in { Janitor(w1) } :
             \E w3 \in { Lumberjack(w2) } :
             \E w4 \in { [w3 EXCEPT !.entities = @ \cup {"eg"}] } :
                InitWorld(WithAbilities(w4, Player0,
                                        << Ability("WeaponAttack", c), MeleeAttack >>))
    /\ handler = Handler("Main")
    /\ outcome = Outcome("none", FALSE)
    /\ audit = NoAudit

AuditNoAbility ==
    audit' = [audit EXCEPT !.ability = NoAbilityUse, !.cooldown = NoCooldownCall]

\* CombatEventHandler.ev_keydown: confirm on "Attack" hands the last ability
\* of the player to the target selection
Ability_Attack ==
    /\ handler.name = "Combat"
    /\ SwitchHandler([Handler("SelectTarget") EXCEPT
                         !.ability = Len(attr[Player0].abilities)])
    /\ AuditNoAbility

\* CombatEventHandler.ev_keydown: confirm on "Abilities"
Combat_Abilities ==
    /\ handler.name = "Combat"
    /\ SwitchHandler(Handler("SelectAbility"))
    /\ AuditNoAbility

\* SelectAbilityEventHandler.ev_keydown: confirm with the cursor on ability k
SelectAbility_Confirm(k) ==
    /\ handler.name = "SelectAbility"
    /\ k \in DOMAIN attr[Player0].abilities
    /\ IF AbilityReady(attr[Player0].abilities[k])
       THEN /\ SwitchHandler([Handler("SelectTarget") EXCEPT !.ability = k])
            /\ AuditNoAbility
       ELSE /\ SwitchHandler(handler)
            /\ audit' = [audit EXCEPT !.cooldown = NoCooldownCall, !.ability =
                   [ performed |-> FALSE, rejected |-> TRUE, k |-> k,
                     remaining |-> attr[Player0].abilities[k].cooldown_remaining ]]

\* SelectAbilityEventHandler.ev_keydown: Escape
SelectAbility_Escape ==
    /\ handler.name = "SelectAbility"
    /\ SwitchHandler(Handler("Combat"))
    /\ AuditNoAbility

\* the worlds the perform() of the player's ability k can leave
Ability_perform(w, k, target) ==
    IF w.attr[Player0].abilities[k].kind = "MeleeAttack"
    THEN MeleeAttack_perform(w, Player0, target, AttackRolls)
    ELSE Strikes(w, Player0, target, "MAINHAND", AttackRolls)

\* SelectTargetEventHandler.ev_keydown: confirm on the enemy under the cursor;
\* handle_action performs the ability and runs the enemy turns
Ability_Confirm(target) ==
    /\ handler.name = "SelectTarget"
    /\ handler.ability \in DOMAIN attr[Player0].abilities
    /\ target \in SeqSet(Roster(active_enemies))
    /\ IF is_alive(World, target)
       THEN /\ \E w \in Ability_perform(World, handler.ability, target) :
               \E turns \in CombatEnemyTurns({ w }, Roster(w.active_enemies)) :
                  /\ Bounded(turns)
                  /\ handle_events(w, turns)
            /\ audit' = [audit EXCEPT !.cooldown = NoCooldownCall, !.ability =
                   [ performed |-> TRUE, rejected |-> FALSE, k |-> handler.ability,
                     remaining |->
                         attr[Player0].abilities[handler.ability].cooldown_remaining ]]
       ELSE /\ SwitchHandler(handler)
            /\ AuditNoAbility

\* ability.start_cooldown() on the player's ability k
StartCooldown(k) ==
    /\ handler.name = "Combat"
    /\ k \in DOMAIN attr[Player0].abilities
    /\ \E a \in { start_cooldown(attr[Player0].abilities[k]) } :
          /\ Commit([World EXCEPT !.attr[Player0].abilities[k] = a])
          /\ audit' = [audit EXCEPT !.ability = NoAbilityUse, !.cooldown =
                 [ op |-> "start", cooldown |-> a.cooldown,
                   before |-> attr[Player0].abilities[k].cooldown_remaining,
                   after |-> a.cooldown_remaining, on |-> is_on_cooldown(a) ]]
    /\ UNCHANGED << handler, outcome >>

\* ability.reduce_cooldown() on the player's ability k
ReduceCooldown(k) ==
    /\ handler.name = "Combat"
    /\ k \in DOMAIN attr[Player0].abilities
    /\ \E a \in { reduce_cooldown(attr[Player0].abilities[k]) } :
          /\ Commit([World EXCEPT !.attr[Player0].abilities[k] = a])
          /\ audit' = [audit EXCEPT !.ability = NoAbilityUse, !.cooldown =
                 [ op |-> "reduce", cooldown |-> a.cooldown,
                   before |-> attr[Player0].abilities[k].cooldown_remaining,
                   after |-> a.cooldown_remaining, on |-> is_on_cooldown(a) ]]
    /\ UNCHANGED << handler, outcome >>

NextAbility ==
    \/ Bump
    \/ Ability_Attack
    \/ Combat_Abilities
    \/ \E k \in 1..2 : SelectAbility_Confirm(k)
    \/ SelectAbility_Escape
    \/ \E target \in Fighters \ {Player0} : Ability_Confirm(target)
    \/ \E k \in 1..2 : StartCooldown(k)
    \/ \E k \in 1..2 : ReduceCooldown(k)

SpecAbility == InitAbility /\ [][NextAbility]_vars

C22_TurnTicksCooldown ==
    [][ (handler.name = "SelectTarget" /\ outcome'.result = "performed")
          => \A k \in DOMAIN attr[Player0].abilities :
                attr'[Player0].abilities[k].cooldown_remaining
                    = Max(0, attr[Player0].abilities[k].cooldown_remaining - 1) ]_vars

\* C23: for every ability 0 <= cooldown_remaining <= cooldown after any
\* interleaving of start_cooldown and reduce_cooldown; start_cooldown sets
\* cooldown_remaining to cooldown, reduce_cooldown lowers it by one and leaves
\* a 0 at 0, and is_on_cooldown is true exactly when cooldown_remaining > 0.
C23_CooldownWithinBounds ==
    /\ \A f \in Fighters : \A k \in DOMAIN attr[f].abilities :
          /\ 0 <= attr[f].abilities[k].cooldown_remaining
          /\ attr[f].abilities[k].cooldown_remaining <= attr[f].abilities[k].cooldown
    /\ audit.cooldown.op = "start" => audit.cooldown.after = audit.cooldown.cooldown
    /\ audit.cooldown.op = "reduce"
          => audit.cooldown.after = Max(0, audit.cooldown.before - 1)
    /\ audit.cooldown.op # "none"
          => (audit.cooldown.on <=> audit.cooldown.after > 0)

\* reduce_cooldown was called on an ability with a cooldown that was ready
C23_Witness ==
    /\ audit.cooldown.op = "reduce"
    /\ audit.cooldown.cooldown = MaxCooldown
    /\ audit.cooldown.before = 0
    /\ audit.cooldown.after = 0
    /\ ~audit.cooldown.on

(***************************************************************************)
(* Specification SpecMelee: MeleeAttack.perform called for any caster and  *)
(* target.  The player's off hand is empty, holds a second dagger, or      *)
(* holds a shield.                                                         *)
(***************************************************************************)
\* equip_to_slot(OFFHAND, item) for an Armor: the item enters the slot and
\* on_equip runs; the slot's figures are then read from fields an Armor does
\* not have, and the AttributeError ends the call there
OffhandArmor(w, f, item) ==
    on_equip([TakeFromInventory(w, f, item) EXCEPT
                 !.item_parent[item] = EquipOf(f),
                 !.equipment[f].items["OFFHAND"] = item], f, item)

Shielded(w) ==
    OffhandArmor(PickupAction_perform(place(w, "shield"), Player0, "shield"),
                 Player0, "shield")

InitMelee ==
    /\ \E rolls \in [ Fighters -> 2..4 ] :
          /\ \A f \in Fighters : rolls[f] \in HitDice(f)
          /\ \E w0 \in { Constructed(rolls) } :
             \E w1 \in { new_game(w0) } :
             \E w2 \in { Janitor(w1) } :
             \E w3 \in { Lumberjack(w2) } :
             \E w4 \in { place_all(w3, FloorItems) } :
             \E w5 \in { [w4 EXCEPT !.entities = @ \cup {"eg"}] } :
             \E w6 \in { w5, DualWield(w5), Shielded(w5) } :
                InitWorld(w6)
    /\ handler = Handler("Main")
    /\ outcome = Outcome("none", FALSE)
    /\ audit = NoAudit

\* one MeleeAttack.perform in each behaviour: the main-hand strike, then the
\* off-hand strike on the world it left
Melee ==
    /\ ~audit.melee.called
    /\ \E caster \in Fighters, target \in Fighters :
       \E r1 \in Draws(World, caster, target, "MAINHAND", AttackRolls) :
       \E w1 \in { WeaponAttack_perform(World, caster, target, "MAINHAND", r1) } :
       \E r2 \in Draws(w1, caster, target, "OFFHAND", AttackRolls) :
       \E w2 \in { WeaponAttack_perform(w1, caster, target, "OFFHAND", r2) } :
        /\ caster # target
        /\ Bounded(w2)
        /\ Commit(w2)
        /\ audit' = [audit EXCEPT !.melee =
               [ called |-> TRUE,
                 caster |-> caster,
                 target |-> target,
                 hp_between |-> w1.hp[target],
                 mainhand_message |->
                     WeaponAttack_message(World, caster, target, "MAINHAND", r1),
                 offhand_message |->
                     WeaponAttack_message(w1, caster, target, "OFFHAND", r2),
                 offhand_rolled |-> r2 # NoDraw ]]
        /\ UNCHANGED << handler, outcome >>

NextMelee == Melee

SpecMelee == InitMelee /\ [][NextMelee]_vars

\* C24: a MeleeAttack makes a main-hand weapon attack and then an off-hand
\* weapon attack; with the off-hand slot empty or holding a non-weapon the
\* off-hand attack makes no roll, changes no hp and logs no message.
C24_OffhandSuppressed ==
    audit.melee.called
        => /\ audit.melee.mainhand_message # "none"
           /\ IF /\ equipment[audit.melee.caster].items["OFFHAND"] # NoItem
                 /\ ItemDef[equipment[audit.melee.caster].items["OFFHAND"]].equipment_type
                        = "WEAPON"
              THEN audit.melee.offhand_rolled /\ audit.melee.offhand_message # "none"
              ELSE /\ ~audit.melee.offhand_rolled
                   /\ audit.melee.offhand_message = "none"
                   /\ hp[audit.melee.target] = audit.melee.hp_between

\* the player struck with a shield in the off hand: the main hand hit, the
\* off hand did nothing
C24_Witness ==
    /\ audit.melee.called
    /\ equipment[Player0].items["OFFHAND"] = "shield"
    /\ audit.melee.caster = Player0
    /\ audit.melee.mainhand_message = "for hit points."
    /\ audit.melee.offhand_message = "none"
    /\ ~audit.melee.offhand_rolled
    /\ hp[audit.melee.target] = audit.melee.hp_between

(***************************************************************************)
(* Specification SpecEquipAction: EquipAction.perform called for a weapon  *)
(* of the player's inventory and a hand that can hold it, whatever the     *)
(* hand holds, between pickups.                                            *)
(***************************************************************************)
EquipCall ==
    /\ handler.name = "Main"
    /\ \E k \in DOMAIN inventory[Player0].items, slot \in {"MAINHAND", "OFFHAND"} :
       \E item \in { inventory[Player0].items[k][1] } :
       \E w \in { EquipAction_perform(World, Player0, slot, item) } :
          /\ ItemDef[item].equipment_type = "WEAPON"
          /\ slot = "OFFHAND" => ItemDef[item].offhand
          /\ handle_events(w, RoamingEnemyTurns(w))
          /\ audit' = [audit EXCEPT !.equip = NoEquipCall, !.round_trip = NoRoundTrip,
                 !.equip_action =
                     [ called |-> TRUE, completed |-> ~w.raised, slot |-> slot,
                       item |-> item,
                       occupant |-> equipment[Player0].items[slot] ]]

NextEquipAction == Pickup \/ EquipCall

SpecEquipAction == InitEquip /\ [][NextEquipAction]_vars

NextUnarmed ==
    \/ OpenMenu("Unequip")
    \/ MenuEscape
    \/ \E slot \in Slots : Unequip_on_item_selected(slot)
    \/ handler.name = "Main" /\ \E xp \in XpGrants : AddXp(xp)
    \/ handler.name = "Main"
          /\ \E stats \in StatChoices, roll \in HitDice(Player0) : LevelUp(stats, roll)

SpecUnarmed == InitEquip /\ [][NextUnarmed]_vars

FireballDamage == 8

\* the living fighters of the roster, the ones the loop of activate stops at
LivingEnemies(w) ==
    { e \in SeqSet(Roster(w.active_enemies)) : is_alive(w, e) }

\* activate that consumes the scroll when it hit nobody: C28 rests on the test
\* of targets_hit
FireballDamageConsumable_activate_always_consumes(w, caster, item) ==
    IF LivingEnemies(w) # {}
    THEN [ error |-> "AttributeError", w |-> w ]
    ELSE [ error |-> "none", w |-> consume(w, item) ]

\* FireballDamageConsumable.activate.  For the first living enemy the loop
\* compares caster.roll_spell_attack() with enemy.magic_defense, and
\* Fighter.magic_defense reads equipment.magic_resistance, an attribute that
\* Equipment never gets: the comparison raises AttributeError before any
\* message, damage or consume.  With no living enemy the loop does nothing
\* and Impossible is raised.
FireballDamageConsumable_activate(w, caster, item) ==
    IF LivingEnemies(w) # {}
    THEN [ error |-> "AttributeError", w |-> w ]
    ELSE [ error |-> "Impossible", w |-> Raise(w) ]

\* the scrolls of one kind in a fighter's inventory
Carried(w, f, kind) ==
    Cardinality({ k \in DOMAIN FlattenStacks(w.inventory[f].items) :
                    ItemDef[FlattenStacks(w.inventory[f].items)[k]].consumable = kind })

RECURSIVE add_items(_, _, _)
add_items(w, f, items) ==
    IF items = << >> THEN w ELSE add_items(add_item(w, f, Head(items)), f, Tail(items))

\* what the player carries into the fight
ScrollKits ==
    { << "fireball1", "fireball2", "lightning1" >>,
      << "fireball1", "confusion1" >>,
      << "lightning1", "confusion1" >> }

InitScroll ==
    /\ \E rolls \in [ Fighters -> 2..4 ], kit \in ScrollKits :
          /\ \A f \in Fighters : rolls[f] \in HitDice(f)
          /\ \E w0 \in { Constructed(rolls) } :
             \E w1 \in { new_game(w0) } :
             \E w2 \in { Janitor(w1) } :
             \E w3 \in { Lumberjack(w2) } :
             \E w4 \in { add_items(w3, Player0, kit) } :
                InitWorld([w4 EXCEPT !.entities = @ \cup {"eg"}])
    /\ handler = Handler("Main")
    /\ outcome = Outcome("none", FALSE)
    /\ audit = NoAudit

\* CombatEventHandler.ev_keydown: confirm on "Items"
Combat_Items ==
    /\ handler.name = "Combat"
    /\ SwitchHandler(Handler("CombatInventory"))
    /\ UNCHANGED audit

\* InventoryEventHandler.ev_keydown: Escape, back to the combat menu
CombatInventory_Escape ==
    /\ handler.name = "CombatInventory"
    /\ SwitchHandler(Handler("Combat"))
    /\ UNCHANGED audit

SpellAudit(item, error, w) ==
    audit' = [audit EXCEPT !.spell =
        [ called |-> TRUE, kind |-> ItemDef[item].consumable,
          living |-> LivingEnemies(World), error |-> error,
          count_before |-> Carried(World, Player0, ItemDef[item].consumable),
          count_after |-> Carried(w, Player0, ItemDef[item].consumable),
          hp_before |-> hp, hp_after |-> w.hp,
          ai_before |-> ai, ai_after |-> w.ai ]]

\* InventoryActivateHandler.on_item_selected for a scroll, in combat.
\* Confusion and lightning: get_action builds ItemAction(entity, item,
\* target=None), a keyword ItemAction.__init__ does not take: TypeError, which
\* handle_events does not catch.  Fireball: get_action returns the ItemAction,
\* handle_action performs it; Impossible is caught and logged and the handler
\* stays, the AttributeError leaves handle_events.
CombatInventory_on_item_selected(k) ==
    /\ handler.name = "CombatInventory"
    /\ k \in DOMAIN inventory[Player0].items
    /\ \E item \in { inventory[Player0].items[k][1] } :
       \E r \in { FireballDamageConsumable_activate(World, Player0, item) } :
          /\ ItemDef[item].consumable \in {"fireball", "lightning", "confusion"}
          /\ IF ItemDef[item].consumable = "fireball" /\ r.error # "AttributeError"
             THEN /\ handle_events(r.w, r.w)
                  /\ SpellAudit(item, r.error, r.w)
             ELSE /\ UncaughtError
                  /\ SpellAudit(item,
                                IF ItemDef[item].consumable = "fireball"
                                THEN r.error ELSE "TypeError",
                                World)

\* Fighter.take_damage on a living fighter of the roster, for all the hit
\* points it has left
Slay ==
    /\ handler.name = "Combat"
    /\ \E e \in LivingEnemies(World) :
       \E loot \in LootResults(World, e) :
       \E w \in { take_damage(World, e, hp[e], loot) } :
          /\ Bounded(w)
          /\ Commit(w)
          /\ outcome' = Outcome("none", FALSE)
          /\ UNCHANGED << handler, audit >>

NextScroll ==
    \/ Bump
    \/ Slay
    \/ Combat_Items
    \/ CombatInventory_Escape
    \/ \E k \in 1..Capacity : CombatInventory_on_item_selected(k)

SpecScroll == InitScroll /\ [][NextScroll]_vars

\* C27: a confusion or lightning scroll used on a living enemy leaves the
\* player with exactly one scroll of that kind less, whether the spell roll
\* hits or misses.
C27_SpellScrollConsumed ==
    (audit.spell.called /\ audit.spell.kind \in {"lightning", "confusion"}
        /\ audit.spell.living # {})
      => audit.spell.count_after = audit.spell.count_before - 1

C29_FireballHitsEveryLivingEnemy ==
    (audit.spell.called /\ audit.spell.kind = "fireball" /\ audit.spell.living # {})
      => /\ audit.spell.count_after = audit.spell.count_before - 1
         /\ \A e \in audit.spell.living :
               audit.spell.hp_after[e]
                  \in { Max(0, audit.spell.hp_before[e] - FireballDamage),
                        Max(0, audit.spell.hp_before[e] - FireballDamage \div 2) }
         /\ \A e \in Fighters \ audit.spell.living :
               audit.spell.hp_after[e] = audit.spell.hp_before[e]

(***************************************************************************)
(* Level.increase_level, in SpecFighter                                    *)
(***************************************************************************)
\* what n Perseverance increases starting above p add to max_hp and hp at a level
RECURSIVE PerseveranceGain(_, _, _)
PerseveranceGain(p, n, current_level) ==
    IF n = 0 THEN 0
    ELSE (p + 1) * current_level + PerseveranceGain(p + 1, n - 1, current_level)

\* the hit points roll_hitpoints adds at the end of increase_level
RolledHitpoints(f, perseverance, roll) ==
    roll + ((perseverance + equipment[f].perseverance_bonus) \div 2)

\* C30: increase_level(stats) takes the threshold of the level the fighter had
\* from current_xp, raises current_level by exactly one and each base attribute
\* by the number of times stats names it; every Perseverance entry also adds
\* the new perseverance times the new level to max_hp and hp.
C30_IncreaseLevelApplied ==
    audit.levelup.called =>
      LET u == audit.levelup
          n == CountIn(u.stats, "Perseverance")
          gain == PerseveranceGain(u.attr_before.perseverance, n,
                                   u.level_after.current_level)
                    + RolledHitpoints(Player0, u.attr_after.perseverance, u.roll)
      IN /\ u.level_after.current_xp
               = u.level_before.current_xp
                   - (FighterArgs[Player0].level_up_base
                        + u.level_before.current_level
                            * FighterArgs[Player0].level_up_factor)
         /\ u.level_after.current_level = u.level_before.current_level + 1
         /\ u.attr_after.strength = u.attr_before.strength + CountIn(u.stats, "Strength")
         /\ u.attr_after.perseverance = u.attr_before.perseverance + n
         /\ u.attr_after.agility = u.attr_before.agility + CountIn(u.stats, "Agility")
         /\ u.attr_after.magic = u.attr_before.magic + CountIn(u.stats, "Magic")
         /\ u.max_hp_after = u.max_hp_before + gain
         /\ u.hp_after = u.hp_before + gain

\* a fighter of level two or more levelled up with Perseverance among the
\* attributes chosen
C30_Witness ==
    /\ audit.levelup.called
    /\ CountIn(audit.levelup.stats, "Perseverance") > 0
    /\ audit.levelup.level_before.current_level > 1
    /\ audit.levelup.level_before.current_xp
          > experience_to_next_level(World, Player0) - FighterArgs[Player0].level_up_factor

\* C31: the proficiency increase_level records for a fighter is
\* 1 + current_level \div 4 at the level reached, the bonus Level.proficiency
\* adds to the attack rolls of a proficient class.
C31_RecordedProficiency ==
    \A f \in Fighters :
        attr[f].proficiency # << >>
            => attr[f].proficiency = << Level_proficiency(World, f) >>

(***************************************************************************)
(* Specification SpecAvoidance: Fighter.avoidance read on a player built   *)
(* with any agility and carrying any agility and avoidance bonus.          *)
(***************************************************************************)
AgilityValues == -2 .. 4
AgilityBonuses == -3 .. 2
AvoidanceBonuses == 0 .. 2

InitAvoidance ==
    /\ \E rolls \in [ Fighters -> 2..4 ], a \in AgilityValues, b \in AgilityBonuses,
          v \in AvoidanceBonuses :
          /\ \A f \in Fighters : rolls[f] = FighterArgs[f].min_hp_per_level
          /\ \E w0 \in { Constructed(rolls) } :
                InitWorld([w0 EXCEPT !.attr[Player0].agility = a,
                                     !.equipment[Player0].agility_bonus = b,
                                     !.equipment[Player0].avoidance_bonus = v])
    /\ handler = Handler("Main")
    /\ outcome = Outcome("none", FALSE)
    /\ audit = NoAudit

\* the property Fighter.avoidance, read once
ReadAvoidance ==
    /\ ~audit.avoidance.read
    /\ audit' = [audit EXCEPT !.avoidance =
                    [ read |-> TRUE, value |-> avoidance(World, Player0) ]]
    /\ UNCHANGED << hp, max_hp, ai, group_ai, attr, level, equipment, inventory,
                    item_parent, entities, in_combat, active_enemies, handler, log,
                    outcome >>

NextAvoidance == ReadAvoidance

SpecAvoidance == InitAvoidance /\ [][NextAvoidance]_vars

\* half of n, rounded toward zero
HalfTowardZero(n) == IF n >= 0 THEN n \div 2 ELSE 0 - ((0 - n) \div 2)

\* C32: avoidance is 10 plus half of agility + agility_bonus, rounded toward
\* zero, plus avoidance_bonus, also when an agility penalty makes the sum
\* negative.
C32_AvoidanceRoundsTowardZero ==
    audit.avoidance.read
      => audit.avoidance.value
           = 10 + HalfTowardZero(attr[Player0].agility + equipment[Player0].agility_bonus)
                + equipment[Player0].avoidance_bonus

(***************************************************************************)
(* Default constructor arguments.  Enemy.__init__ declares                 *)
(* inventory=Inventory(capacity=26), equipment=Equipment() and             *)
(* level=Level(): Python evaluates a default once, when the function is    *)
(* defined, so every fighter constructed without these arguments refers to *)
(* the same three objects, and their parent is the fighter constructed     *)
(* last.  Specification SpecDefaults: the two fighters of the hostile      *)
(* group are constructed with or without the arguments, and items are      *)
(* added, weapons equipped and levels raised through one fighter at a time.*)
(***************************************************************************)
\* the fighters whose inventory, equipment and level are the objects of f
Sharers(f) == IF f \in audit.defaults.built THEN audit.defaults.built ELSE {f}

\* the parent of the objects of f: the fighter whose constructor ran last
ObjectParent(f) == IF "e2" \in Sharers(f) THEN "e2" ELSE f

\* the world after a call through f left w: what f's objects hold is what
\* every fighter referring to them holds
Aliased(w, f) ==
    [w EXCEPT !.inventory = [ g \in Fighters |->
                                IF g \in Sharers(f) THEN w.inventory[f] ELSE @[g] ],
              !.equipment = [ g \in Fighters |->
                                IF g \in Sharers(f) THEN w.equipment[f] ELSE @[g] ],
              !.level = [ g \in Fighters |->
                            IF g \in Sharers(f) THEN w.level[f] ELSE @[g] ]]

InitDefaults ==
    /\ \E rolls \in [ Fighters -> 2..4 ], built \in SUBSET {"e1", "e2"} :
          /\ \A f \in Fighters : rolls[f] = FighterArgs[f].min_hp_per_level
          /\ \E w0 \in { Constructed(rolls) } :
             \E w1 \in { place_all(w0, FloorItems) } :
                InitWorld([w1 EXCEPT !.level =
                    [ f \in Fighters |->
                        IF f \in built THEN [ @[f] EXCEPT !.xp_given = 0 ] ELSE @[f] ]])
          /\ audit = [NoAudit EXCEPT !.defaults = [ built |-> built ]]
    /\ handler = Handler("Main")
    /\ outcome = Outcome("none", FALSE)

\* f.inventory.add_item(item), for an item lying on the floor
GiveItem(f, item) ==
    /\ item \in ItemsHere(World)
    /\ \E w0 \in { [World EXCEPT !.entities = @ \ {item}] } :
       \E w1 \in { add_item(w0, f, item) } :
          /\ ~w1.raised
          /\ Commit(Aliased(w1, f))
    /\ UNCHANGED << handler, outcome, audit >>

\* f.equipment.equip_to_slot(MAINHAND, item), for a weapon of f's inventory
EquipOwn(f, item) ==
    /\ has_item(World, f, item)
    /\ ItemDef[item].equipment_type = "WEAPON"
    /\ \E w1 \in { equip_to_slot(World, f, "MAINHAND", item) } :
          /\ ~w1.raised
          /\ Commit(Aliased(w1, f))
    /\ UNCHANGED << handler, outcome, audit >>

\* f.level.increase_level([]): the level object changes, and the hit points
\* of its parent, here by the lowest roll of its hit die
RaiseLevel(f) ==
    /\ \E p \in { ObjectParent(f) } :
       \E w1 \in { increase_level(World, p, << >>, FighterArgs[p].min_hp_per_level) } :
          /\ w1.level[p].current_level <= MaxLevel
          /\ Commit(Aliased(w1, p))
    /\ UNCHANGED << handler, outcome, audit >>

NextDefaults ==
    \/ \E f \in {"e1", "e2"}, item \in Items : GiveItem(f, item)
    \/ \E f \in {"e1", "e2"}, item \in Items : EquipOwn(f, item)
    \/ \E f \in {"e1", "e2"} : RaiseLevel(f)

SpecDefaults == InitDefaults /\ [][NextDefaults]_vars

\* C33: no two fighters share an Equipment, Inventory or Level object: one
\* call on the inventory, equipment or level of a fighter changes these
\* records of at most one fighter, also for fighters constructed with the
\* default arguments.
C33_NoSharedComponents ==
    [][ \E f \in Fighters :
          \A g \in Fighters \ {f} :
              /\ inventory'[g] = inventory[g]
              /\ equipment'[g] = equipment[g]
              /\ level'[g] = level[g] ]_vars

(***************************************************************************)
(* Specification SpecLoot: the fight of SpecCombat, entered with the       *)
(* player's inventory empty or filled to its capacity with weapons.        *)
(***************************************************************************)
\* the player picks the items up until the inventory is full
RECURSIVE Filled(_, _)
Filled(w, items) ==
    IF items = << >> \/ Len(w.inventory[Player0].items) >= FighterArgs[Player0].capacity
    THEN w
    ELSE Filled(PickupAction_perform(w, Player0, Head(items)), Tail(items))

InitLoot ==
    /\ \E rolls \in [ Fighters -> 2..4 ] :
          /\ \A f \in Fighters : rolls[f] \in HitDice(f)
          /\ \A f \in Fighters \ {Player0} : rolls[f] = FighterArgs[f].min_hp_per_level
          /\ \E w0 \in { Constructed(rolls) } :
             \E w1 \in { new_game(w0) } :
             \E w2 \in { Janitor(w1) } :
             \E w3 \in { Lumberjack(w2) } :
             \E w4 \in { place_all(w3, FloorItems) } :
             \E w5 \in { [w4 EXCEPT !.entities = @ \cup {"eg"}] } :
             \E w6 \in { w5, Filled(w5, << "club", "dagger2", "greataxe" >>) } :
                InitWorld(w6)
    /\ handler = Handler("Main")
    /\ outcome = Outcome("none", FALSE)
    /\ audit = NoAudit

SpecLoot == InitLoot /\ [][NextCombat]_vars

\* C34: a loot entry confirmed while the player's inventory cannot take it is
\* reported, stays in the list where it was, and leaves the player's stacks
\* and gold as they were.
C34_RefusedLootStays ==
    (audit.loot.key = "confirm" /\ audit.loot.raised)
      => /\ outcome.result = "Impossible"
         /\ ~audit.loot.left
         /\ audit.loot.items_after = audit.loot.items_before
         /\ audit.loot.stacks_after = audit.loot.stacks_before
         /\ audit.loot.gold_after = audit.loot.gold_before

\* the full inventory refused an entry of a loot list
C34_Witness ==
    /\ audit.loot.key = "confirm"
    /\ audit.loot.raised
    /\ Len(audit.loot.stacks_before) = FighterArgs[Player0].capacity
    /\ handler.name = "Loot"
    /\ audit.loot.k \in DOMAIN handler.items

(***************************************************************************)
(* Specification SpecLevelUp: the player gains experience and spends the   *)
(* attribute points on the level-up screen, key by key.                    *)
(***************************************************************************)
\* the player's records stay, the handler and the outcome change
LevelUpKey(h, result) ==
    /\ handler' = h
    /\ outcome' = Outcome(result, FALSE)
    /\ audit' = [audit EXCEPT !.levelup = NoLevelUp, !.heal = NoHealEvent]
    /\ UNCHANGED << hp, max_hp, ai, group_ai, attr, level, equipment, inventory,
                    item_parent, entities, in_combat, active_enemies, log >>

\* EventHandler.on_render: the level-up screen opens over the handler
LevelUp_on_render ==
    /\ handler.name = "Main"
    /\ requires_level_up(World, Player0)
    /\ LevelUpKey(Handler("LevelUp"), "handler")

\* LevelUpEventHandler.ev_keydown: Escape takes the last choice back
LevelUp_Escape ==
    /\ handler.name = "LevelUp"
    /\ LevelUpKey(IF handler.stats = << >> THEN handler
                  ELSE [handler EXCEPT !.stats = SubSeq(@, 1, Len(@) - 1)],
                  "none")

\* a stat key that is taken whatever was chosen before: C35 rests on the
\* test of len(self.stats)
LevelUp_Stat_unlimited(stat) ==
    /\ handler.name = "LevelUp"
    /\ LevelUpKey([handler EXCEPT !.stats = Append(@, stat)], "none")

\* LevelUpEventHandler.ev_keydown: the keys s, p, a and m
LevelUp_Stat(stat) ==
    /\ handler.name = "LevelUp"
    /\ IF Len(handler.stats) >= 3
       THEN LevelUpKey(handler, "rejected")
       ELSE LevelUpKey([handler EXCEPT !.stats = Append(@, stat)], "none")

\* LevelUpEventHandler.ev_mousebuttondown
LevelUp_Click ==
    /\ handler.name = "LevelUp"
    /\ LevelUpKey(handler, "ignored")

\* LevelUpEventHandler.ev_keydown: the confirm key
LevelUp_Confirm(roll) ==
    /\ handler.name = "LevelUp"
    /\ IF Len(handler.stats) < 3
       THEN LevelUpKey(handler, "rejected")
       ELSE /\ \E w \in { increase_level(World, Player0, handler.stats, roll) } :
                 /\ Bounded(w)
                 /\ Commit(w)
                 /\ audit' = [audit EXCEPT !.heal = NoHealEvent, !.levelup =
                        [ called |-> TRUE, stats |-> handler.stats, roll |-> roll,
                          level_before |-> level[Player0],
                          level_after |-> w.level[Player0],
                          attr_before |-> attr[Player0], attr_after |-> w.attr[Player0],
                          hp_before |-> hp[Player0], hp_after |-> w.hp[Player0],
                          max_hp_before |-> max_hp[Player0],
                          max_hp_after |-> w.max_hp[Player0] ]]
            /\ handler' = Handler("Main")
            /\ outcome' = Outcome("handler", FALSE)

\* the stat keys pressed
StatKeys == {"Strength", "Perseverance"}

NextLevelUp ==
    \/ handler.name = "Main" /\ \E xp \in XpGrants : AddXp(xp)
    \/ LevelUp_on_render
    \/ LevelUp_Escape
    \/ \E stat \in StatKeys : LevelUp_Stat(stat)
    \/ LevelUp_Click
    \/ \E roll \in HitDice(Player0) : LevelUp_Confirm(roll)

SpecLevelUp == InitFighter /\ [][NextLevelUp]_vars

\* C35: the level-up screen never holds more than three choices, is left only
\* by a confirmation with exactly three, and every step that changes the
\* player's level raises it by one and the attributes by three points in all;
\* no other key of the screen changes level or attributes.
C35_ThreePointsPerLevel ==
    [][ /\ handler'.name = "LevelUp" => Len(handler'.stats) <= 3
        /\ (handler.name = "LevelUp" /\ handler'.name # "LevelUp")
              => /\ Len(handler.stats) = 3
                 /\ level'[Player0].current_level = level[Player0].current_level + 1
        /\ (handler.name = "LevelUp" /\ handler'.name = "LevelUp")
              => level' = level /\ attr' = attr
        /\ level'[Player0].current_level # level[Player0].current_level
              => /\ level'[Player0].current_level = level[Player0].current_level + 1
                 /\ StatPoints([World EXCEPT !.attr = attr'], Player0)
                       = StatPoints(World, Player0) + 3 ]_vars

\* the screen was left by a confirmation with three choices, for level two or
\* more
C35_Witness ==
    /\ audit.levelup.called
    /\ Len(audit.levelup.stats) = 3
    /\ handler.name = "Main"
    /\ level[Player0].current_level > 1

(***************************************************************************)
(* Specification SpecEnemy: Enemy.__init__ of the two enemies, from the    *)
(* return of Fighter.__init__ on, one pass of the levelling loop per step. *)
(***************************************************************************)
\* the target_level arguments: integers below, at and above the first level
TargetLevels == (0 - 1) .. MaxLevel

InitEnemy ==
    /\ \E rolls \in [ Fighters -> 2..4 ] :
          /\ \A f \in Fighters : rolls[f] = FighterArgs[f].min_hp_per_level
          /\ InitWorld(Constructed(rolls))
    /\ \E target \in [ {"e1", "e2"} -> TargetLevels ] :
          audit = [NoAudit EXCEPT !.construct =
                      [ target |-> target, running |-> {"e1", "e2"},
                        passes |-> [ f \in {"e1", "e2"} |-> 0 ] ]]
    /\ handler = Handler("Main")
    /\ outcome = Outcome("none", FALSE)

\* the loop test, with <= for <
KeepsLevelling_inclusive(w, f, target_level) ==
    w.level[f].current_level <= target_level

\* Enemy.__init__: while self.level.current_level < target_level
KeepsLevelling(w, f, target_level) ==
    w.level[f].current_level < target_level

\* Enemy.__init__: one pass of the loop, with the three results of stat_prio
\* and the hit die of roll_hitpoints
Enemy_levelling_pass(f, stats, roll) ==
    /\ f \in audit.construct.running
    /\ KeepsLevelling(World, f, audit.construct.target[f])
    /\ Commit(increase_level(World, f, stats, roll))
    /\ audit' = [audit EXCEPT !.construct.passes[f] = @ + 1]
    /\ UNCHANGED << handler, outcome >>

\* Enemy.__init__: the loop is left, self.level.xp_given *= current_level
Enemy_levelled(f) ==
    /\ f \in audit.construct.running
    /\ ~KeepsLevelling(World, f, audit.construct.target[f])
    /\ Commit([World EXCEPT !.level[f].xp_given = @ * level[f].current_level])
    /\ audit' = [audit EXCEPT !.construct.running = @ \ {f}]
    /\ UNCHANGED << handler, outcome >>

NextEnemy ==
    \/ \E f \in {"e1", "e2"}, stats \in StatChoices :
          \E roll \in HitDice(f) : Enemy_levelling_pass(f, stats, roll)
    \/ \E f \in {"e1", "e2"} : Enemy_levelled(f)

\* a constructor that can take a step takes it
SpecEnemy == InitEnemy /\ [][NextEnemy]_vars /\ WF_vars(NextEnemy)

\* C36: current_xp of every progression record is >= 0 in every reachable
\* state, the records of enemies levelled up to their target level during
\* construction included.
C36_XpNeverNegative ==
    \A f \in Fighters : level[f].current_xp >= 0

\* C39: constructing an Enemy with any integer target_level terminates; each
\* pass of the levelling loop raises current_level by exactly one; the
\* constructor returns with current_level = max(1, target_level) and
\* xp_given = the base reward times that level.
C39_EnemyReachesTargetLevel ==
    /\ [][ \A f \in {"e1", "e2"} :
              /\ audit'.construct.passes[f] # audit.construct.passes[f]
                    => level'[f].current_level = level[f].current_level + 1
              /\ audit'.construct.passes[f] = audit.construct.passes[f]
                    => level'[f].current_level = level[f].current_level
              /\ (f \in audit.construct.running /\ f \notin audit'.construct.running)
                    => /\ level'[f].current_level = Max(1, audit.construct.target[f])
                       /\ level'[f].xp_given
                             = FighterArgs[f].xp_given * Max(1, audit.construct.target[f]) ]_vars
    /\ <>(audit.construct.running = {})

\* both constructors returned, one after two passes of the loop and one
\* without any
C39_Witness ==
    /\ audit.construct.running = {}
    /\ audit.construct.target["e1"] = 3
    /\ audit.construct.passes["e1"] = 2
    /\ level["e1"].current_level = 3
    /\ audit.construct.target["e2"] < 1
    /\ level["e2"].current_level = 1

(***************************************************************************)
(* Specification SpecInventory: add_item and remove_item called directly   *)
(* on the player's inventory, in any order.  The calls take any item, one  *)
(* the inventory holds already included; that is how a stack grows to      *)
(* MAX_STACK_SIZE with the few items of the model.                         *)
(***************************************************************************)
InventoryItems == {"rat1", "dagger", "dagger2", "fireball1", "fireball2"}
\* the stacks explored hold at most MaxShortStack items, or all but one of
\* MAX_STACK_SIZE, or more
MaxShortStack == 2

\* the inventory after n calls of add_item(item) on a new inventory, for a
\* stackable item and n <= MAX_STACK_SIZE: one stack of n items
Stocked(w, f, item, n) ==
    IF n = 0 THEN w
    ELSE [w EXCEPT !.inventory[f].items = << [ j \in 1..n |-> item ] >>,
                   !.item_parent[item] = InvOf(f)]

ExploredStacks(w) ==
    \A k \in DOMAIN w.inventory[Player0].items :
        \/ Len(w.inventory[Player0].items[k]) <= MaxShortStack
        \/ Len(w.inventory[Player0].items[k]) >= MAX_STACK_SIZE - 1

InitInventory ==
    /\ \E rolls \in [ Fighters -> 2..4 ], n \in {0, MAX_STACK_SIZE - 1} :
          /\ \A f \in Fighters : rolls[f] = FighterArgs[f].min_hp_per_level
          /\ InitWorld(Stocked(Constructed(rolls), Player0, "rat1", n))
    /\ handler = Handler("Main")
    /\ outcome = Outcome("none", FALSE)
    /\ audit = NoAudit

InventoryCall(op, item, w) ==
    /\ ExploredStacks(w)
    /\ Commit([w EXCEPT !.raised = FALSE])
    /\ audit' = [audit EXCEPT !.inventory_call =
                    [ op |-> op, item |-> item, raised |-> w.raised,
                      stacks_before |-> inventory[Player0].items,
                      stacks_after |-> w.inventory[Player0].items ]]
    /\ UNCHANGED << handler, outcome >>

\* Inventory.add_item(item)
Inventory_add_item(item) ==
    InventoryCall("add_item", item, add_item(World, Player0, item))

\* Inventory.remove_item(item)
Inventory_remove_item(item) ==
    InventoryCall("remove_item", item, remove_item(World, Player0, item))

NextInventory ==
    \/ \E item \in InventoryItems : Inventory_add_item(item)
    \/ \E item \in InventoryItems : Inventory_remove_item(item)

SpecInventory == InitInventory /\ [][NextInventory]_vars

\* C37: after any sequence of add_item and remove_item calls the inventory
\* has at most capacity stacks, no stack is empty, no stack holds more than
\* MAX_STACK_SIZE items, and a stack of more than one item holds only
\* stackable items of one name; an add_item that raises Impossible leaves
\* the stacks as they were.
C37_StacksWellFormed ==
    /\ Len(inventory[Player0].items) <= FighterArgs[Player0].capacity
    /\ \A k \in DOMAIN inventory[Player0].items :
          LET stack == inventory[Player0].items[k]
          IN /\ Len(stack) >= 1
             /\ Len(stack) <= MAX_STACK_SIZE
             /\ Len(stack) > 1
                   => \A j \in DOMAIN stack :
                         /\ ItemDef[stack[j]].stackable
                         /\ ItemDef[stack[j]].name = ItemDef[stack[1]].name
    /\ (audit.inventory_call.op = "add_item" /\ audit.inventory_call.raised)
          => audit.inventory_call.stacks_after = audit.inventory_call.stacks_before

\* add_item raised Impossible for a stackable item: the inventory is at its
\* capacity and the only stack of that name is full
C37_Witness ==
    /\ audit.inventory_call.op = "add_item"
    /\ audit.inventory_call.raised
    /\ ItemDef[audit.inventory_call.item].stackable
    /\ Len(inventory[Player0].items) = FighterArgs[Player0].capacity
    /\ \E k \in DOMAIN inventory[Player0].items :
          /\ Len(inventory[Player0].items[k]) = MAX_STACK_SIZE
          /\ ItemDef[inventory[Player0].items[k][1]].name
                = ItemDef[audit.inventory_call.item].name

(***************************************************************************)
(* Specification SpecLootKeys: the fight of SpecLoot, with the remaining   *)
(* paths of the loot screen: the cursor keys, any other key, and the       *)
(* rendering of a screen that has nothing to offer.  The second member of   *)
(* the roster carries a rat, as a Lumberjack does, or nothing, as a        *)
(* Janitor does.                                                           *)
(***************************************************************************)
InitLootKeys ==
    /\ \E rolls \in [ Fighters -> 2..4 ] :
          /\ \A f \in Fighters : rolls[f] \in HitDice(f)
          /\ \A f \in Fighters \ {Player0} : rolls[f] = FighterArgs[f].min_hp_per_level
          /\ \E w0 \in { Constructed(rolls) } :
             \E w1 \in { new_game(w0) } :
             \E w2 \in { Janitor(w1) } :
             \E w3 \in { Lumberjack(w2), equip_to_slot(w2, "e2", "MAINHAND", "handaxe") } :
             \E w4 \in { place_all(w3, FloorItems) } :
             \E w5 \in { [w4 EXCEPT !.entities = @ \cup {"eg"}] } :
             \E w6 \in { w5, Filled(w5, << "club", "dagger2", "greataxe" >>) } :
                InitWorld(w6)
    /\ handler = Handler("Main")
    /\ outcome = Outcome("none", FALSE)
    /\ audit = NoAudit

\* LootEventHandler.ev_keydown: a cursor key moves the cursor modulo the
\* length of the list, which divides by zero when the list is empty
Loot_Cursor ==
    /\ handler.name = "Loot"
    /\ IF handler.items = << >>
       THEN UncaughtError
       ELSE SwitchHandler(handler)
    /\ LootAudit("cursor", 0, FALSE)

\* LootEventHandler.ev_keydown: any other key returns self
Loot_OtherKey ==
    /\ handler.name = "Loot"
    /\ SwitchHandler(handler)
    /\ LootAudit("other", 0, FALSE)

\* LootEventHandler.on_render: without gold and items the screen is replaced
\* by the popup "There is no loot!" over the main handler
Loot_on_render ==
    /\ handler.name = "Loot"
    /\ handler.gold = 0 /\ handler.items = << >>
    /\ SwitchHandler(Handler("Main"))
    /\ LootAudit("render", 0, FALSE)

NextLootKeys ==
    \/ NextCombat
    \/ Loot_Cursor
    \/ Loot_OtherKey
    \/ Loot_on_render

SpecLootKeys == InitLootKeys /\ [][NextLootKeys]_vars

\* C38: every step that leaves the loot screen (last item taken, confirm
\* with an empty list, Escape) adds the pooled gold of the dead roster to the
\* player's gold, once; no step that stays in the loot screen and no step
\* outside it changes the player's gold.
C38_PooledGoldAddedOnce ==
    [][ /\ (handler.name = "Loot" /\ handler'.name # "Loot")
              => inventory'[Player0].gold
                    = inventory[Player0].gold + RosterGold(World, Roster(active_enemies))
        /\ (handler.name = "Loot" /\ handler'.name = "Loot")
              => inventory'[Player0].gold = inventory[Player0].gold
        /\ handler.name # "Loot"
              => inventory'[Player0].gold = inventory[Player0].gold ]_vars

\* a list without entries was confirmed and the gold of both enemies went to
\* the player
C38_Witness ==
    /\ audit.loot.key = "confirm"
    /\ audit.loot.left
    /\ audit.loot.items_before = << >>
    /\ audit.loot.pooled = 20
    /\ inventory[Player0].gold = audit.loot.gold_before + audit.loot.pooled
    /\ handler.name = "Main"

====
